---- MODULE Spec2Model ----
(***************************************************************************)
(* A model of studylib's caching and library-introspection core:           *)
(*   - CacheManager          the file-backed store (lib/cache/CacheManager) *)
(*   - RequireLibraryContext the resolver and its in-memory tier            *)
(*   - AIResponseCache       the documentation response cache               *)
(*                                                                         *)
(* Strings the code manipulates (cache keys, file names, library names)     *)
(* are sequences of character codes.  Date.now() is read in seconds, so     *)
(* that the 30-day TTL fits TLC's integers; every duration of the code is   *)
(* a whole number of seconds.  File sizes are bytes.                        *)
(***************************************************************************)
EXTENDS Integers, Sequences, FiniteSets, TLC

VARIABLES
    instance,   \* CacheManager.instance (static): NoInstance or its three fields
    options,    \* ghost: the options of the getInstance call that built it
    disk,       \* the filesystem: disk[dir][fileName] = the file
    now,        \* Date.now()
    ticks,      \* how many times the clock has been advanced
    watch,      \* ghost: one entry a completed set stored, followed until removed
    last,       \* ghost: the store operation that has just returned
    fileCache,          \* RequireLibraryContext.fileCache of the resolver built
    memoryCache,        \* RequireLibraryContext.memoryCache, a Map in insertion order
    aiResponseCache,    \* AIResponseCache.instance (static): its field `cache`
    modules,    \* node_modules: what each library name resolves to
    call        \* ghost: the resolver or response-cache call that has just returned

appVars == <<fileCache, memoryCache, aiResponseCache, modules, call>>
vars == <<instance, options, disk, now, ticks, watch, last,
          fileCache, memoryCache, aiResponseCache, modules, call>>

----------------------------------------------------------------------------
(* Bounds of the model *)

MaxTicks == 2
MaxEvictTicks == 1

----------------------------------------------------------------------------
(* Program constants *)

DefaultTtl == 86400             \* 24 * 60 * 60 * 1000 ms
DefaultMaxSize == 104857600     \* 100 * 1024 * 1024
ResolverTtl == 604800           \* 7 * 24 * 60 * 60 * 1000 ms
ResponseTtl == 2592000          \* 30 * 24 * 60 * 60 * 1000 ms
ResponseMaxSize == 524288000    \* 500 * 1024 * 1024
memoryCacheTimeout == 300       \* 5 * 60 * 1000 ms
maxMemoryCacheSize == 50
DefaultCacheDir == "~/.studylib/cache"
LibraryCacheDir == "~/.studylib/library-cache"
AiCacheDir == "~/.studylib/ai-cache"

Dirs == {DefaultCacheDir, LibraryCacheDir, AiCacheDir}

----------------------------------------------------------------------------
(* JavaScript values.  An object is its set of members <<name, leaf>>; the  *)
(* leaf "fn" is a function-valued member, any other leaf is plain data.     *)

Undefined == [kind |-> "undefined", props |-> {}]
Null == [kind |-> "null", props |-> {}]
Obj(ps) == [kind |-> "object", props |-> ps]

Fn(ps) == [kind |-> "function", props |-> ps]

(* require(path) of a file whose evaluation, or whose parsing as JSON,      *)
(* throws: the value stands where the file's exports would be.              *)
Throws == [kind |-> "throw", props |-> {}]

(* JSON texts of the maps of a package descriptor (dependencies,            *)
(* devDependencies, peerDependencies), held as leaves of its members        *)
DependencyLeaves ==
    {"{}", "{a:^1.0.0}", "{a:^2.0.0}", "{a:^3.0.0}", "{b:^1.0.0}", "{b:^2.0.0}",
     "{a:^1.0.0,b:^1.0.0}"}

(* typeof of a member with the given leaf; "#1" is the number 1 *)
TypeOf(leaf) ==
    CASE leaf = "fn" -> "function"
      [] leaf \in {"object"} \cup DependencyLeaves -> "object"
      [] leaf \in {"true", "false"} -> "boolean"
      [] leaf = "#1" -> "number"
      [] OTHER -> "string"

(* The one element of a set of one element: {e(x) : x \in {v}} is e of the  *)
(* value of v, with v computed once.                                        *)
Only(S) == CHOOSE x \in S : TRUE

(* if (v): null and undefined are falsy, objects and functions truthy *)
Truthy(v) == v.kind \notin {"null", "undefined"}

(* JSON.stringify followed by JSON.parse of a value held as an object      *)
(* member: function-valued and undefined members are omitted from the text, *)
(* so they read back as undefined.  The JSON text is represented by the     *)
(* value it parses to.  A LibraryCache and an AIResponseCacheEntry are      *)
(* objects whose members are values themselves.                             *)
RECURSIVE JsonStringify(_)
JsonStringify(v) ==
    CASE v.kind = "object" -> [v EXCEPT !.props = {p \in v.props : p[2] # "fn"}]
      [] v.kind \in {"function", "undefined"} -> Undefined
      [] v.kind = "LibraryCache" ->
            [v EXCEPT !.exports = JsonStringify(v.exports),
                      !.packageInfo = JsonStringify(v.packageInfo)]
      [] v.kind = "AIResponseCacheEntry" ->
            [v EXCEPT !.response = JsonStringify(v.response)]
      [] OTHER -> v

----------------------------------------------------------------------------
(* An optional field of CacheOptions, and the `a || b` that defaults it *)

None == [given |-> FALSE, val |-> 0]
Some(v) == [given |-> TRUE, val |-> v]
NoDir == [given |-> FALSE, val |-> ""]

OrDefaultNum(o, d) == IF o.given /\ o.val # 0 THEN o.val ELSE d
OrDefaultStr(o, d) == IF o.given /\ o.val # "" THEN o.val ELSE d

----------------------------------------------------------------------------
(* Directories as functions from file name to file *)

EmptyDir == [q \in {} |-> 0]
Put(files, p, file) == [q \in DOMAIN files \cup {p} |-> IF q = p THEN file ELSE files[q]]
Remove(files, S) == [q \in DOMAIN files \ S |-> files[q]]

----------------------------------------------------------------------------
(* CacheManager.getCacheFilePath *)

B64Char(i) ==
    IF i < 26 THEN 65 + i
    ELSE IF i < 52 THEN 97 + (i - 26)
    ELSE IF i < 62 THEN 48 + (i - 52)
    ELSE IF i = 62 THEN 43 ELSE 47

RECURSIVE Base64(_)
Base64(b) ==
    IF Len(b) = 0 THEN <<>>
    ELSE IF Len(b) = 1 THEN
        << B64Char(b[1] \div 4), B64Char((b[1] % 4) * 16), 61, 61 >>
    ELSE IF Len(b) = 2 THEN
        << B64Char(b[1] \div 4), B64Char((b[1] % 4) * 16 + (b[2] \div 16)),
           B64Char((b[2] % 16) * 4), 61 >>
    ELSE
        << B64Char(b[1] \div 4), B64Char((b[1] % 4) * 16 + (b[2] \div 16)),
           B64Char((b[2] % 16) * 4 + (b[3] \div 64)), B64Char(b[3] % 64) >>
        \o Base64(SubSeq(b, 4, Len(b)))

(* .replace(/[/+=]/g, '_') *)
ReplaceUnsafe(s) == [i \in 1..Len(s) |-> IF s[i] \in {47, 43, 61} THEN 95 ELSE s[i]]

JsonSuffix == <<46, 106, 115, 111, 110>>

getCacheFilePath(key) == ReplaceUnsafe(Base64(key)) \o JsonSuffix

----------------------------------------------------------------------------
(* CacheManager: constructor and getInstance *)

NoInstance == [cacheDir |-> "", ttl |-> 0, maxSize |-> 0]
NoOptions == [cacheDir |-> NoDir, ttl |-> None, maxSize |-> None]

CacheManager(opts) ==
    [cacheDir |-> OrDefaultStr(opts.cacheDir, DefaultCacheDir),
     ttl      |-> OrDefaultNum(opts.ttl, DefaultTtl),
     maxSize  |-> OrDefaultNum(opts.maxSize, DefaultMaxSize)]

(* `new CacheManager` throws CONFIG_ERROR when initializeCache cannot create  *)
(* the directory, and the static field then stays unset.                     *)
getInstance(inst, opts, mkdirFails) ==
    IF inst = NoInstance
    THEN IF mkdirFails THEN NoInstance ELSE CacheManager(opts)
    ELSE inst

----------------------------------------------------------------------------
(* CacheManager: delete, get *)

delete(files, key, unlinkFails) ==
    LET filePath == getCacheFilePath(key) IN
    IF filePath \in DOMAIN files /\ ~unlinkFails
    THEN Remove(files, {filePath})
    ELSE files

(* get with the expiry test off by one: `>=` for `>` *)
get_ExpiresAtTtl(cfg, files, key, t, io, touch) ==
    LET filePath == getCacheFilePath(key) IN
    IF filePath \notin DOMAIN files
    THEN [value |-> Null, files |-> files, outcome |-> "absent"]
    ELSE IF io = "readFails"
    THEN [value |-> Null, files |-> files, outcome |-> "failed"]
    ELSE
        LET cached == files[filePath]
            read == IF touch THEN [files EXCEPT ![filePath].atime = t] ELSE files
        IN  IF t - cached.timestamp >= cfg.ttl
            THEN [value |-> Null,
                  files |-> delete(read, key, io = "unlinkFails"),
                  outcome |-> "expired"]
            ELSE [value |-> cached.value, files |-> read, outcome |-> "live"]

get(cfg, files, key, t, io, touch) ==
    LET filePath == getCacheFilePath(key) IN
    IF filePath \notin DOMAIN files
    THEN [value |-> Null, files |-> files, outcome |-> "absent"]
    ELSE IF io = "readFails"
    THEN [value |-> Null, files |-> files, outcome |-> "failed"]
    ELSE
        LET cached == files[filePath]
            read == IF touch THEN [files EXCEPT ![filePath].atime = t] ELSE files
        IN  IF t - cached.timestamp > cfg.ttl
            THEN [value |-> Null,
                  files |-> delete(read, key, io = "unlinkFails"),
                  outcome |-> "expired"]
            ELSE [value |-> cached.value, files |-> read, outcome |-> "live"]

----------------------------------------------------------------------------
(* CacheManager: getCacheSize, ensureCacheSpace, set, clear *)

RECURSIVE SumSizes(_, _)
SumSizes(files, S) ==
    IF S = {} THEN 0
    ELSE LET p == CHOOSE q \in S : TRUE IN files[p].size + SumSizes(files, S \ {p})

getCacheSize(files, fails) == IF fails THEN 0 ELSE SumSizes(files, DOMAIN files)

(* The sort with its comparison reversed: newest first *)
RECURSIVE Orders_NewestFirst(_)
Orders_NewestFirst(files) ==
    IF DOMAIN files = {} THEN {<<>>}
    ELSE UNION {{<<p>> \o s : s \in Orders_NewestFirst(Remove(files, {p}))} :
                    p \in {a \in DOMAIN files :
                              \A b \in DOMAIN files : files[b].atime - files[a].atime <= 0}}

(* The orders fileStats can have after the sort by atime: readdir's order   *)
(* is the filesystem's, so files of equal atime come in any order.          *)
(* A sorted list starts with a file no other file is older than (a.atime -  *)
(* b.atime <= 0 for every b) and goes on with a sorted list of the others.  *)
RECURSIVE Orders(_)
Orders(files) ==
    IF DOMAIN files = {} THEN {<<>>}
    ELSE UNION {{<<p>> \o s : s \in Orders(Remove(files, {p}))} :
                    p \in {a \in DOMAIN files :
                              \A b \in DOMAIN files : files[a].atime - files[b].atime <= 0}}

(* The loop leaving after its first unlink *)
evictLoop_Once(files, order, size, maxSize, budget) ==
    IF order = <<>> \/ size <= maxSize \/ budget = 0 THEN files
    ELSE Remove(files, {Head(order)})

(* The for-loop of ensureCacheSpace over the rest of fileStats; budget is   *)
(* the number of unlinks that succeed before a call inside the try block    *)
(* throws (0: readdir, a stat or the first unlink throws).                  *)
RECURSIVE evictLoop(_, _, _, _, _)
evictLoop(files, order, size, maxSize, budget) ==
    IF order = <<>> \/ size <= maxSize \/ budget = 0 THEN files
    ELSE evictLoop(Remove(files, {Head(order)}), Tail(order),
                   size - files[Head(order)].size, maxSize, budget - 1)

ensureCacheSpace(cfg, files, order, io, budget) ==
    LET currentSize == getCacheSize(files, io = "sizeFails") IN
    IF currentSize > cfg.maxSize
    THEN evictLoop(files, order, currentSize, cfg.maxSize, budget)
    ELSE files

(* A set that writes without ensureCacheSpace before it *)
set_WithoutEnsuringSpace(cfg, files, key, value, size, t, order, io, budget) ==
    LET filePath == getCacheFilePath(key)
        file == [timestamp |-> t,
                 value |-> JsonStringify(value),
                 size |-> size,
                 atime |-> IF filePath \in DOMAIN files THEN files[filePath].atime ELSE t]
    IN  IF io = "writeFails" THEN files ELSE Put(files, filePath, file)

set(cfg, files, key, value, size, t, order, io, budget) ==
    LET spaced == ensureCacheSpace(cfg, files, order, io, budget)
        filePath == getCacheFilePath(key)
        file == [timestamp |-> t,
                 value |-> JsonStringify(value),
                 size |-> size,
                 atime |-> IF filePath \in DOMAIN spaced THEN spaced[filePath].atime ELSE t]
    IN  IF io = "writeFails" THEN spaced ELSE Put(spaced, filePath, file)

(* A clear that swallows the failures of readdir and unlink *)
clear_Swallowing(files, io, failing) ==
    [files |-> IF io = "readdirFails" THEN files ELSE Remove(files, DOMAIN files \ failing),
     error |-> ""]

(* failing: the files whose unlink rejects.  Promise.all rejects with the    *)
(* first failure; the unlinks of the other files have been issued and run.  *)
clear(files, io, failing) ==
    IF io = "readdirFails"
    THEN [files |-> files, error |-> "CONFIG_ERROR"]
    ELSE [files |-> Remove(files, DOMAIN files \ failing),
          error |-> IF failing = {} THEN "" ELSE "CONFIG_ERROR"]

----------------------------------------------------------------------------
(* CacheManager: what get, set and delete raise.  A fault is the filesystem *)
(* call that fails inside the operation ("" when none does); what the       *)
(* operation raises to its caller is what its try/catch blocks let through. *)

(* A catch block that throws the error again *)
swallow_Rethrowing(error) == error

(* catch (error) { this.logger.debug(...) } *)
swallow(error) == ""

deleteFault(files, key, io) ==
    IF getCacheFilePath(key) \in DOMAIN files /\ io = "unlinkFails" THEN "unlink" ELSE ""

deleteThrown(files, key, io) == swallow(deleteFault(files, key, io))

getFault(cfg, files, key, t, io) ==
    LET filePath == getCacheFilePath(key) IN
    IF filePath \notin DOMAIN files THEN ""
    ELSE IF io = "readFails" THEN "readFile"
    ELSE IF t - files[filePath].timestamp > cfg.ttl THEN deleteFault(files, key, io)
    ELSE ""

(* readFile throws inside get's try block; the unlink of an expired file   *)
(* throws inside delete's, which get awaits inside its own.                 *)
getThrown(cfg, files, key, t, io) ==
    swallow(IF getFault(cfg, files, key, t, io) = "unlink"
            THEN deleteThrown(files, key, io)
            ELSE getFault(cfg, files, key, t, io))

(* getCacheSize fails ("readdir"), or the eviction stops at an unlink that  *)
(* throws before the loop is through, or writeFile fails.                   *)
setFault(cfg, files, order, io, budget) ==
    IF io = "sizeFails" THEN "readdir"
    ELSE IF /\ io = "unlinkFails"
            /\ getCacheSize(files, FALSE) > cfg.maxSize
            /\ evictLoop(files, order, getCacheSize(files, FALSE), cfg.maxSize, budget)
                    # evictLoop(files, order, getCacheSize(files, FALSE), cfg.maxSize, Len(order))
    THEN "unlink"
    ELSE IF io = "writeFails" THEN "writeFile"
    ELSE ""

(* getCacheSize and ensureCacheSpace have try blocks of their own, inside   *)
(* the one of set.                                                          *)
setThrown(cfg, files, order, io, budget) ==
    swallow(IF setFault(cfg, files, order, io, budget) \in {"readdir", "unlink"}
            THEN swallow(setFault(cfg, files, order, io, budget))
            ELSE setFault(cfg, files, order, io, budget))

----------------------------------------------------------------------------
(* The store on its own: a client that builds the CacheManager with options *)
(* of its choice and then calls get, set, delete and clear.  The ghost      *)
(* `watch` follows one entry from the set that stored it until a            *)
(* delete of its key, a clear, its eviction or its expiry removes it; a set *)
(* is followed when `track` says so.  `last.evicted` holds the files an      *)
(* eviction of set, or a clear, has removed; `last.fault` the filesystem    *)
(* call that failed inside the operation, and `last.error` what the         *)
(* operation raised to its caller.                                          *)

NoLast ==
    [op |-> "init", key |-> <<>>, value |-> Undefined, io |-> "ok",
     outcome |-> "", evicted |-> {}, fault |-> "", error |-> ""]
NoWatch == [key |-> <<>>, value |-> Undefined, at |-> 0]
NoCall ==
    [op |-> "init", name |-> <<>>, io |-> "ok", error |-> "", details |-> "", source |-> "",
     value |-> Undefined, fileHash |-> <<>>]

(* A library of node_modules: its entry-point file (main, the bytes the     *)
(* hash is taken of, and exports, the value the file evaluates to) and its  *)
(* package.json (packageText, and packageJson, the value it parses to).     *)
NoPackage == [present |-> FALSE, text |-> <<>>, json |-> Undefined]
NotInstalled == [installed |-> FALSE, main |-> <<>>, exports |-> Undefined, package |-> NoPackage]
LibraryNames == {<<108>>}                                   \* "l"
ResolverNames == LibraryNames \cup {<<109>>}                  \* "l", "m"

Files == disk[instance.cacheDir]

Init ==
    /\ instance = NoInstance
    /\ options = NoOptions
    /\ disk = [d \in Dirs |-> EmptyDir]
    /\ now = 0
    /\ ticks = 0
    /\ watch = NoWatch
    /\ last = NoLast
    /\ fileCache = NoInstance
    /\ memoryCache = <<>>
    /\ aiResponseCache = NoInstance
    /\ modules = [n \in ResolverNames |-> NotInstalled]
    /\ call = NoCall

GetInstance(opts, mkdirFails) ==
    /\ instance' = getInstance(instance, opts, mkdirFails)
    /\ options' = IF instance = NoInstance /\ ~mkdirFails THEN opts ELSE options
    /\ last' = [NoLast EXCEPT !.op = "getInstance",
                              !.io = IF mkdirFails THEN "mkdirFails" ELSE "ok",
                              !.outcome = IF instance = NoInstance /\ mkdirFails
                                          THEN "CONFIG_ERROR" ELSE ""]
    /\ UNCHANGED <<disk, now, ticks, watch, appVars>>

Get(key, io, touch) ==
    /\ instance # NoInstance
    /\ LET r == get(instance, Files, key, now, io, touch) IN
        /\ disk' = [disk EXCEPT ![instance.cacheDir] = r.files]
        /\ watch' = IF r.outcome = "expired" /\ key = watch.key THEN NoWatch ELSE watch
        /\ last' = [op |-> "get", key |-> key, value |-> r.value, io |-> io,
                    outcome |-> r.outcome, evicted |-> {},
                    fault |-> getFault(instance, Files, key, now, io),
                    error |-> getThrown(instance, Files, key, now, io)]
    /\ UNCHANGED <<instance, options, now, ticks, appVars>>

Set(key, value, size, io, budget, track) ==
    /\ instance # NoInstance
    /\ \E order \in IF getCacheSize(Files, io = "sizeFails") > instance.maxSize
                      THEN Orders(Files) ELSE {<<>>} :
        LET spaced == ensureCacheSpace(instance, Files, order, io, budget)
            evicted == DOMAIN Files \ DOMAIN spaced
            kept == IF getCacheFilePath(watch.key) \in evicted THEN NoWatch ELSE watch
        IN  /\ disk' = [disk EXCEPT ![instance.cacheDir] =
                            set(instance, Files, key, value, size, now, order, io, budget)]
            /\ watch' = IF track /\ io # "writeFails" /\ kept.key \in {<<>>, key}
                        THEN [key |-> key, value |-> value, at |-> now]
                        ELSE kept
            /\ last' = [op |-> "set", key |-> key, value |-> value, io |-> io,
                        outcome |-> "", evicted |-> evicted,
                        fault |-> setFault(instance, Files, order, io, budget),
                        error |-> setThrown(instance, Files, order, io, budget)]
    /\ UNCHANGED <<instance, options, now, ticks, appVars>>

Delete(key, io) ==
    /\ instance # NoInstance
    /\ disk' = [disk EXCEPT ![instance.cacheDir] = delete(Files, key, io = "unlinkFails")]
    /\ watch' = IF key = watch.key THEN NoWatch ELSE watch
    /\ last' = [NoLast EXCEPT !.op = "delete", !.key = key, !.io = io,
                              !.fault = deleteFault(Files, key, io),
                              !.error = deleteThrown(Files, key, io)]
    /\ UNCHANGED <<instance, options, now, ticks, appVars>>

Clear(io, failing) ==
    /\ instance # NoInstance
    /\ LET r == clear(Files, io, failing) IN
        /\ disk' = [disk EXCEPT ![instance.cacheDir] = r.files]
        /\ last' = [NoLast EXCEPT !.op = "clear", !.io = io, !.outcome = r.error,
                                  !.evicted = DOMAIN Files \ DOMAIN r.files]
    /\ watch' = NoWatch
    /\ UNCHANGED <<instance, options, now, ticks, appVars>>

Tick(d, maxTicks) ==
    /\ ticks < maxTicks
    /\ now' = now + d
    /\ ticks' = ticks + 1
    /\ last' = [NoLast EXCEPT !.op = "tick"]
    /\ UNCHANGED <<instance, options, disk, watch, appVars>>

Failing == IF instance = NoInstance THEN {{}} ELSE SUBSET DOMAIN Files
Unlimited == IF instance = NoInstance THEN 0 ELSE Cardinality(DOMAIN Files)

----------------------------------------------------------------------------
(* SpecStore: expiry and keys.  Entries are far smaller than the default    *)
(* maxSize, so ensureCacheSpace finds nothing to evict.                     *)

StoreKeys == {<<97, 97, 62>>, <<97, 97, 63>>}      \* "aa>", "aa?"
StoreValues == {Obj({<<"a", "1">>}), Obj({<<"a", "2">>, <<"f", "fn">>})}
StoreOptions == [cacheDir : {NoDir}, ttl : {Some(0), Some(1)}, maxSize : {None}]

StoreNext ==
    \/ \E opts \in StoreOptions, mkdirFails \in BOOLEAN : GetInstance(opts, mkdirFails)
    \/ \E key \in StoreKeys, io \in {"ok", "readFails", "unlinkFails"} : Get(key, io, FALSE)
    \/ \E key \in StoreKeys, value \in StoreValues, io \in {"ok", "writeFails"} :
            Set(key, value, 1, io, Unlimited, TRUE)
    \/ \E key \in StoreKeys, io \in {"ok", "unlinkFails"} : Delete(key, io)
    \/ \E io \in {"ok", "readdirFails", "unlinkFails"} :
       \E failing \in {f \in Failing : (io = "unlinkFails") = (f # {})} :
            Clear(io, failing)
    \/ Tick(1, MaxTicks)

SpecStore == Init /\ [][StoreNext]_vars

----------------------------------------------------------------------------
(* SpecEvict: the size limit.  A small maxSize is configured, entries are   *)
(* one or two bytes, and reads may or may not update a file's atime.  The   *)
(* failures are those that change what is evicted: a getCacheSize that      *)
(* fails and an unlink that rejects.  A writeFile that rejects after the    *)
(* eviction is part of SpecFaults.  The store is constructed once: a later  *)
(* getInstance returns the same instance and changes nothing.               *)

EvictKeys == {<<98>>, <<99>>, <<100>>}                      \* "b", "c", "d"
EvictValues == {Obj({<<"a", "1">>})}
EntrySizes == {1, 2}
EvictOptions == [cacheDir : {NoDir}, ttl : {None}, maxSize : {Some(2)}]

EvictNext ==
    \/ \E opts \in EvictOptions : instance = NoInstance /\ GetInstance(opts, FALSE)
    \/ \E key \in EvictKeys, touch \in BOOLEAN : Get(key, "ok", touch)
    \/ \E key \in EvictKeys, value \in EvictValues, size \in EntrySizes,
          io \in {"ok", "sizeFails"} :
            Set(key, value, size, io, Unlimited, FALSE)
    \/ \E key \in EvictKeys, value \in EvictValues, size \in EntrySizes, budget \in {0, 1} :
            Set(key, value, size, "unlinkFails", budget, FALSE)
    \/ \E key \in EvictKeys : Delete(key, "ok")
    \/ Clear("ok", {})
    \/ Tick(1, MaxEvictTicks)

SpecEvict == Init /\ [][EvictNext]_vars

----------------------------------------------------------------------------
(* SpecFaults: the store under every failure of the filesystem.  A small   *)
(* maxSize and a TTL of one second are configured, so that sets evict and   *)
(* entries expire; reads, writes, unlinks, the size accounting and readdir  *)
(* fail.                                                                    *)

MaxFaultTicks == 2

FaultKeys == {<<98>>, <<99>>}                               \* "b", "c"
FaultOptions == [cacheDir : {NoDir}, ttl : {Some(1)}, maxSize : {Some(2)}]

FaultsNext ==
    \/ \E opts \in FaultOptions : GetInstance(opts, FALSE)
    \/ \E key \in FaultKeys, io \in {"ok", "readFails", "unlinkFails"} : Get(key, io, FALSE)
    \/ \E key \in FaultKeys, value \in EvictValues, size \in EntrySizes,
          io \in {"ok", "sizeFails", "writeFails"} :
            Set(key, value, size, io, Unlimited, FALSE)
    \/ \E key \in FaultKeys, value \in EvictValues, size \in EntrySizes, budget \in {0, 1} :
            Set(key, value, size, "unlinkFails", budget, FALSE)
    \/ \E key \in FaultKeys, io \in {"ok", "unlinkFails"} : Delete(key, io)
    \/ \E io \in {"ok", "readdirFails", "unlinkFails"} :
       \E failing \in {f \in Failing : (io = "unlinkFails") = (f # {})} :
            Clear(io, failing)
    \/ Tick(1, MaxFaultTicks)

SpecFaults == Init /\ [][FaultsNext]_vars

----------------------------------------------------------------------------
(* Strings of the resolver: path.normalize, String.includes, sha256 *)

Dot == <<46>>
DotDot == <<46, 46>>
Colon == <<58>>
PackageInfix == <<58, 112, 97, 99, 107, 97, 103, 101, 58>>      \* ":package:"

(* s.split(sep) *)
RECURSIVE Split(_, _)
Split(s, sep) ==
    IF \A i \in 1..Len(s) : s[i] # sep THEN <<s>>
    ELSE LET i == CHOOSE k \in 1..Len(s) :
                    s[k] = sep /\ \A j \in 1..(k - 1) : s[j] # sep
         IN  <<SubSeq(s, 1, i - 1)>> \o Split(SubSeq(s, i + 1, Len(s)), sep)

RECURSIVE Join(_, _)
Join(segs, sep) ==
    IF segs = <<>> THEN <<>>
    ELSE IF Len(segs) = 1 THEN Head(segs)
    ELSE Head(segs) \o <<sep>> \o Join(Tail(segs), sep)

(* node's normalizeString over the segments of the path: "." and empty      *)
(* segments go, ".." takes the segment before it away, and stays only       *)
(* where the path is relative and has nothing left to take away.            *)
RECURSIVE normalizeString(_, _, _)
normalizeString(segs, acc, allowAboveRoot) ==
    IF segs = <<>> THEN acc
    ELSE LET seg == Head(segs)
             rest == Tail(segs)
         IN  IF seg = <<>> \/ seg = Dot
             THEN normalizeString(rest, acc, allowAboveRoot)
             ELSE IF seg # DotDot
             THEN normalizeString(rest, Append(acc, seg), allowAboveRoot)
             ELSE IF acc # <<>> /\ acc[Len(acc)] # DotDot
             THEN normalizeString(rest, SubSeq(acc, 1, Len(acc) - 1), allowAboveRoot)
             ELSE IF allowAboveRoot
             THEN normalizeString(rest, Append(acc, DotDot), allowAboveRoot)
             ELSE normalizeString(rest, acc, allowAboveRoot)

(* path.normalize (posix) *)
normalize(p) ==
    IF p = <<>> THEN Dot
    ELSE LET isAbs == p[1] = 47
             trailingSeparator == p[Len(p)] = 47
             body == Join(normalizeString(Split(p, 47), <<>>, ~isAbs), 47)
         IN  IF body = <<>>
             THEN IF isAbs THEN <<47>>
                  ELSE IF trailingSeparator THEN <<46, 47>> ELSE Dot
             ELSE (IF isAbs THEN <<47>> ELSE <<>>) \o body
                  \o (IF trailingSeparator THEN <<47>> ELSE <<>>)

isAbsolute(p) == p # <<>> /\ p[1] = 47

Includes(s, sub) ==
    \E i \in 1..(Len(s) - Len(sub) + 1) : SubSeq(s, i, i + Len(sub) - 1) = sub

HexDigit(n) == IF n < 10 THEN 48 + n ELSE 87 + n

(* createHash('sha256')...digest('hex').  The digest is taken to be free   *)
(* of collisions: it is represented by the hex text of the data hashed.    *)
Sha256Hex(data) ==
    [i \in 1..(2 * Len(data)) |->
        IF i % 2 = 1 THEN HexDigit(data[(i + 1) \div 2] \div 16)
                     ELSE HexDigit(data[i \div 2] % 16)]

RECURSIVE DecimalString(_)
DecimalString(n) ==
    IF n < 10 THEN <<48 + n>> ELSE DecimalString(n \div 10) \o <<48 + (n % 10)>>

----------------------------------------------------------------------------
(* A Map, in insertion order: a sequence of [key, value] *)

MapHas(m, k) == \E i \in 1..Len(m) : m[i].key = k
MapGet(m, k) == m[CHOOSE i \in 1..Len(m) : m[i].key = k].value
MapSet(m, k, v) ==
    IF MapHas(m, k)
    THEN [i \in 1..Len(m) |-> IF m[i].key = k THEN [key |-> k, value |-> v] ELSE m[i]]
    ELSE Append(m, [key |-> k, value |-> v])
MapDelete(m, k) == SelectSeq(m, LAMBDA e : e.key # k)

(* The sort with its comparison the other way round: newest first *)
RECURSIVE SortByLastAccessed_Descending(_)
SortByLastAccessed_Descending(entries) ==
    IF entries = <<>> THEN <<>>
    ELSE LET i == CHOOSE k \in 1..Len(entries) :
                    /\ \A j \in 1..Len(entries) :
                            entries[k].value.lastAccessed >= entries[j].value.lastAccessed
                    /\ \A j \in 1..(k - 1) :
                            entries[j].value.lastAccessed # entries[k].value.lastAccessed
         IN  <<entries[i]>> \o
             SortByLastAccessed_Descending(SubSeq(entries, 1, i - 1)
                                           \o SubSeq(entries, i + 1, Len(entries)))

(* Array.prototype.sort (stable) by lastAccessed, ascending *)
RECURSIVE SortByLastAccessed(_)
SortByLastAccessed(entries) ==
    IF entries = <<>> THEN <<>>
    ELSE LET i == CHOOSE k \in 1..Len(entries) :
                    /\ \A j \in 1..Len(entries) :
                            entries[k].value.lastAccessed <= entries[j].value.lastAccessed
                    /\ \A j \in 1..(k - 1) :
                            entries[j].value.lastAccessed # entries[k].value.lastAccessed
         IN  <<entries[i]>> \o
             SortByLastAccessed(SubSeq(entries, 1, i - 1) \o SubSeq(entries, i + 1, Len(entries)))

----------------------------------------------------------------------------
(* RequireLibraryContext: the in-memory tier *)

RECURSIVE shiftOldest(_, _)
shiftOldest(m, entries) ==
    IF Len(m) > maxMemoryCacheSize
    THEN shiftOldest(MapDelete(m, Head(entries).key), Tail(entries))
    ELSE m

cleanMemoryCache(m, t) ==
    LET fresh == SelectSeq(m, LAMBDA e : ~(t - e.value.lastAccessed > memoryCacheTimeout))
    IN  IF Len(fresh) > maxMemoryCacheSize
        THEN shiftOldest(fresh, SortByLastAccessed(fresh))
        ELSE fresh

(* A lookup that leaves lastAccessed as it was *)
getFromMemoryCache_NoRefresh(m, libraryName, t) == m

(* The map after getFromMemoryCache; what it returns is MapGet of the key  *)
getFromMemoryCache(m, libraryName, t) ==
    IF MapHas(m, libraryName)
    THEN MapSet(m, libraryName, [MapGet(m, libraryName) EXCEPT !.lastAccessed = t])
    ELSE m

setInMemoryCache(m, libraryName, cache, t) ==
    MapSet(cleanMemoryCache(m, t), libraryName, cache)

----------------------------------------------------------------------------
(* Errors: a StudylibError has a code and details; any other error is what  *)
(* node or a loaded file throws, named by its code.                         *)

StudylibError(code, details) == [name |-> "StudylibError", code |-> code, details |-> details]
Error(code) == [name |-> "Error", code |-> code, details |-> ""]

(* A catch block that throws again whatever it caught *)
contextCatch_Rethrowing(error) == error

(* The catch block of context: a StudylibError is thrown again as it is,    *)
(* anything else inside a LIBRARY_NOT_FOUND whose details are the error     *)
(* caught.                                                                  *)
contextCatch(error) ==
    IF error.name = "StudylibError" THEN error
    ELSE StudylibError("LIBRARY_NOT_FOUND", error.code)

----------------------------------------------------------------------------
(* RequireLibraryContext: validation, hashing, default exports *)

(* A validation of the name that only refuses the empty string *)
validateLibraryName_NonEmptyOnly(libraryName) ==
    IF libraryName = <<>> THEN "VALIDATION_ERROR" ELSE ""

(* "" when the name passes, or the code of the StudylibError thrown, whose  *)
(* details hold the libraryName                                             *)
validateLibraryName(libraryName) ==
    IF libraryName = <<>> THEN "VALIDATION_ERROR"
    ELSE LET normalizedPath == normalize(libraryName) IN
         IF Includes(normalizedPath, DotDot) \/ isAbsolute(normalizedPath)
         THEN "VALIDATION_ERROR"
         ELSE ""

HasMember(v, name) == \E p \in v.props : p[1] = name

isValidPackageInfo(packageInfo) ==
    /\ packageInfo.kind = "object"
    /\ \E p \in packageInfo.props : p[1] = "name" /\ TypeOf(p[2]) = "string"
    /\ \E p \in packageInfo.props : p[1] = "version" /\ TypeOf(p[2]) = "string"

checkDefaultExport(library) ==
    \/ library.kind = "function"
    \/ /\ library.kind = "object"
       /\ <<"__esModule", "true">> \in library.props
       /\ HasMember(library, "default")

(* { default: library, ...library }: a member `default` of the library      *)
(* itself replaces the one put first.                                       *)
mergedExports(library) ==
    Obj((IF HasMember(library, "default") THEN {}
         ELSE {<<"default", IF library.kind = "function" THEN "fn" ELSE "object">>})
        \cup library.props)

getFileHash(bytes) == Sha256Hex(bytes)

(* require.resolve(libraryName) finds a file *)
Resolves(mods, libraryName) ==
    libraryName \in DOMAIN mods /\ mods[libraryName].installed

----------------------------------------------------------------------------
(* RequireLibraryContext: getPackageInfo and context.  io is the fault of   *)
(* the call's store accesses: "readFails" fails its file reads,             *)
(* "writeFails" its file writes.  Cache entries are one byte, far below any *)
(* maxSize configured, so the store's set finds nothing to evict.           *)

LibraryCache(exports, packageInfo, lastAccessed, hasDefaultExport, fileHash) ==
    [kind |-> "LibraryCache", exports |-> exports, packageInfo |-> packageInfo,
     lastAccessed |-> lastAccessed, hasDefaultExport |-> hasDefaultExport,
     fileHash |-> fileHash]

(* error and details are the code and the details of the StudylibError      *)
(* thrown, "" when the call returns.  A package.json that cannot be         *)
(* resolved, or whose require throws, is caught and gives null.             *)
getPackageInfo(cfg, m, files, mods, libraryName, t, io) ==
    IF validateLibraryName(libraryName) # ""
    THEN [value |-> Null, error |-> validateLibraryName(libraryName),
          details |-> "libraryName", memoryCache |-> m, files |-> files]
    ELSE
    LET touched == getFromMemoryCache(m, libraryName, t) IN
    IF MapHas(touched, libraryName) /\ Truthy(MapGet(touched, libraryName).packageInfo)
    THEN [value |-> MapGet(touched, libraryName).packageInfo, error |-> "", details |-> "",
          memoryCache |-> touched, files |-> files]
    ELSE IF ~Resolves(mods, libraryName) \/ ~mods[libraryName].package.present
    THEN [value |-> Null, error |-> "", details |-> "",
          memoryCache |-> touched, files |-> files]
    ELSE
    LET fileHash == getFileHash(mods[libraryName].package.text)
        cacheKey == libraryName \o PackageInfix \o fileHash
        packageInfo == mods[libraryName].package.json
    IN  Only({
        IF Truthy(fileCached.value)
        THEN [value |-> fileCached.value, error |-> "", details |-> "",
              memoryCache |-> touched, files |-> fileCached.files]
        ELSE IF packageInfo = Throws
        THEN [value |-> Null, error |-> "", details |-> "",
              memoryCache |-> touched, files |-> fileCached.files]
        ELSE IF ~isValidPackageInfo(packageInfo)
        THEN [value |-> Null, error |-> "VALIDATION_ERROR", details |-> "packageInfo",
              memoryCache |-> touched, files |-> fileCached.files]
        ELSE [value |-> packageInfo, error |-> "", details |-> "", memoryCache |-> touched,
              files |-> set(cfg, fileCached.files, cacheKey, packageInfo, 1, t, <<>>, io, 0)] :
        fileCached \in {get(cfg, files, cacheKey, t, io, FALSE)}})

(* What the code finds in a value the store returned for a library's key    *)
(* when it reads it as a LibraryCache.  The store does not tell the kinds   *)
(* of its values apart, and a value that is not a LibraryCache (a           *)
(* package.json descriptor; those of the model have no member of a          *)
(* LibraryCache's names) has none of the fields: exports, packageInfo and   *)
(* fileHash read as undefined, hasDefaultExport as not true, and a          *)
(* lastAccessed of undefined makes now - lastAccessed NaN, which is not     *)
(* greater than any timeout (Unstamped stands for it: a time no clock of    *)
(* the model reaches).                                                      *)
Unstamped == 100 * ResponseTtl
AsLibraryCache(r) ==
    IF r.value.kind = "object"
    THEN [r EXCEPT !.value = LibraryCache(Undefined, Undefined, Unstamped, FALSE, <<>>)]
    ELSE r

(* A context that puts the library into the in-memory tier as soon as it is *)
(* loaded, before the descriptor is read                                    *)
context_CachingBeforeTheDescriptor(cfg, m, files, mods, libraryName, t, io) ==
    IF validateLibraryName(libraryName) # ""
    THEN [exports |-> Undefined, error |-> validateLibraryName(libraryName),
          details |-> "libraryName", source |-> "",
          fileHash |-> <<>>, memoryCache |-> m, files |-> files]
    ELSE
    LET touched == getFromMemoryCache(m, libraryName, t) IN
    IF MapHas(touched, libraryName) /\ Truthy(MapGet(touched, libraryName).exports)
    THEN [exports |-> MapGet(touched, libraryName).exports, error |-> "", details |-> "",
          source |-> "memory", fileHash |-> MapGet(touched, libraryName).fileHash,
          memoryCache |-> touched, files |-> files]
    ELSE IF ~Resolves(mods, libraryName)
    THEN [exports |-> Undefined,
          error |-> contextCatch(Error("MODULE_NOT_FOUND")).code,
          details |-> contextCatch(Error("MODULE_NOT_FOUND")).details, source |-> "",
          fileHash |-> <<>>, memoryCache |-> touched, files |-> files]
    ELSE
    LET fileHash == getFileHash(mods[libraryName].main)
        cacheKey == libraryName \o Colon \o fileHash
    IN  Only({
        IF Truthy(fileCached.value)
        THEN [exports |-> fileCached.value.exports, error |-> "", details |-> "",
              source |-> "file", fileHash |-> fileCached.value.fileHash,
              memoryCache |-> setInMemoryCache(touched, libraryName, fileCached.value, t),
              files |-> fileCached.files]
        ELSE
        LET library == mods[libraryName].exports
            hasDefaultExport == checkDefaultExport(library)
            exports == IF hasDefaultExport THEN mergedExports(library) ELSE library
        IN  IF library = Throws
            THEN [exports |-> Undefined,
                  error |-> contextCatch(Error("ERR_REQUIRE")).code,
                  details |-> contextCatch(Error("ERR_REQUIRE")).details, source |-> "load",
                  fileHash |-> <<>>, memoryCache |-> touched, files |-> fileCached.files]
            ELSE Only({
            IF info.error # ""
            THEN [exports |-> Undefined,
                  error |-> contextCatch(StudylibError(info.error, info.details)).code,
                  details |-> contextCatch(StudylibError(info.error, info.details)).details,
                  source |-> "load", fileHash |-> <<>>,
                  memoryCache |-> setInMemoryCache(info.memoryCache, libraryName,
                                        LibraryCache(exports, Null, t, hasDefaultExport,
                                                     fileHash), t),
                  files |-> info.files]
            ELSE Only({
                 [exports |-> exports, error |-> "", details |-> "", source |-> "load",
                  fileHash |-> fileHash,
                  memoryCache |-> setInMemoryCache(info.memoryCache, libraryName, cacheEntry, t),
                  files |-> set(cfg, info.files, cacheKey, cacheEntry, 1, t, <<>>, io, 0)] :
                 cacheEntry \in {LibraryCache(exports, info.value, t, hasDefaultExport,
                                              fileHash)}}) :
            info \in {getPackageInfo(cfg, touched, fileCached.files, mods, libraryName, t, io)}}) :
        fileCached \in {AsLibraryCache(get(cfg, files, cacheKey, t, io, FALSE))}})

(* source: where the exports returned came from ("memory", "file", or       *)
(* "load" when require ran); fileHash: the hash held by the entry served;   *)
(* error and details: the code and the details of the StudylibError thrown. *)
context(cfg, m, files, mods, libraryName, t, io) ==
    IF validateLibraryName(libraryName) # ""
    THEN [exports |-> Undefined, error |-> validateLibraryName(libraryName),
          details |-> "libraryName", source |-> "",
          fileHash |-> <<>>, memoryCache |-> m, files |-> files]
    ELSE
    LET touched == getFromMemoryCache(m, libraryName, t) IN
    IF MapHas(touched, libraryName) /\ Truthy(MapGet(touched, libraryName).exports)
    THEN [exports |-> MapGet(touched, libraryName).exports, error |-> "", details |-> "",
          source |-> "memory", fileHash |-> MapGet(touched, libraryName).fileHash,
          memoryCache |-> touched, files |-> files]
    ELSE IF ~Resolves(mods, libraryName)
    THEN [exports |-> Undefined,
          error |-> contextCatch(Error("MODULE_NOT_FOUND")).code,
          details |-> contextCatch(Error("MODULE_NOT_FOUND")).details, source |-> "",
          fileHash |-> <<>>, memoryCache |-> touched, files |-> files]
    ELSE
    LET fileHash == getFileHash(mods[libraryName].main)
        cacheKey == libraryName \o Colon \o fileHash
    IN  Only({
        IF Truthy(fileCached.value)
        THEN [exports |-> fileCached.value.exports, error |-> "", details |-> "",
              source |-> "file", fileHash |-> fileCached.value.fileHash,
              memoryCache |-> setInMemoryCache(touched, libraryName, fileCached.value, t),
              files |-> fileCached.files]
        ELSE
        LET library == mods[libraryName].exports
            hasDefaultExport == checkDefaultExport(library)
            exports == IF hasDefaultExport THEN mergedExports(library) ELSE library
        IN  IF library = Throws
            THEN [exports |-> Undefined,
                  error |-> contextCatch(Error("ERR_REQUIRE")).code,
                  details |-> contextCatch(Error("ERR_REQUIRE")).details, source |-> "load",
                  fileHash |-> <<>>, memoryCache |-> touched, files |-> fileCached.files]
            ELSE Only({
            IF info.error # ""
            THEN [exports |-> Undefined,
                  error |-> contextCatch(StudylibError(info.error, info.details)).code,
                  details |-> contextCatch(StudylibError(info.error, info.details)).details,
                  source |-> "load",
                  fileHash |-> <<>>, memoryCache |-> info.memoryCache, files |-> info.files]
            ELSE Only({
                 [exports |-> exports, error |-> "", details |-> "", source |-> "load",
                  fileHash |-> fileHash,
                  memoryCache |-> setInMemoryCache(info.memoryCache, libraryName, cacheEntry, t),
                  files |-> set(cfg, info.files, cacheKey, cacheEntry, 1, t, <<>>, io, 0)] :
                 cacheEntry \in {LibraryCache(exports, info.value, t, hasDefaultExport,
                                              fileHash)}}) :
            info \in {getPackageInfo(cfg, touched, fileCached.files, mods, libraryName, t, io)}}) :
        fileCached \in {AsLibraryCache(get(cfg, files, cacheKey, t, io, FALSE))}})

(* hasDefaultExport: an entry of the in-memory tier answers, whatever its   *)
(* age; without one, context runs and the entry it left is read.  A failed  *)
(* context is caught and gives false.                                       *)
hasDefaultExport(cfg, m, files, mods, libraryName, t, io) ==
    Only({IF MapHas(touched, libraryName)
          THEN [value |-> MapGet(touched, libraryName).hasDefaultExport,
                source |-> "memory", memoryCache |-> touched, files |-> files]
          ELSE Only({[value |-> /\ r.error = ""
                                /\ MapHas(r.memoryCache, libraryName)
                                /\ MapGet(r.memoryCache, libraryName).hasDefaultExport,
                      source |-> r.source, memoryCache |-> r.memoryCache,
                      files |-> r.files] :
                     r \in {context(cfg, touched, files, mods, libraryName, t, io)}}) :
          touched \in {getFromMemoryCache(m, libraryName, t)}})

(* Object.keys(exports): the names of the members; it throws for null and   *)
(* for undefined.                                                           *)
ObjectKeys(v) == {p[1] : p \in v.props}

(* getNamedExports with a filter that lets every key through *)
getNamedExports_KeepingDefault(cfg, m, files, mods, libraryName, t, io) ==
    Only({IF r.error # ""
          THEN [value |-> {}, memoryCache |-> r.memoryCache, files |-> r.files]
          ELSE Only({[value |-> ObjectKeys(r.exports),
                      memoryCache |-> h.memoryCache, files |-> h.files] :
                     h \in {hasDefaultExport(cfg, r.memoryCache, r.files, mods,
                                             libraryName, t, io)}}) :
          r \in {context(cfg, m, files, mods, libraryName, t, io)}})

(* getNamedExports: context, then hasDefaultExport, then the keys of the    *)
(* exports without `default` when there is a default export.  Whatever is   *)
(* thrown is caught and gives the empty array.                              *)
getNamedExports(cfg, m, files, mods, libraryName, t, io) ==
    Only({IF r.error # ""
          THEN [value |-> {}, memoryCache |-> r.memoryCache, files |-> r.files]
          ELSE Only({[value |-> IF ~Truthy(r.exports) THEN {}
                                ELSE {key \in ObjectKeys(r.exports) :
                                            ~h.value \/ key # "default"},
                      memoryCache |-> h.memoryCache, files |-> h.files] :
                     h \in {hasDefaultExport(cfg, r.memoryCache, r.files, mods,
                                             libraryName, t, io)}}) :
          r \in {context(cfg, m, files, mods, libraryName, t, io)}})

(* isAvailable with require in the place of require.resolve: the entry      *)
(* point is evaluated, and one that throws is caught and gives false.       *)
isAvailable_Loading(mods, libraryName) ==
    /\ validateLibraryName(libraryName) = ""
    /\ Resolves(mods, libraryName)
    /\ mods[libraryName].exports # Throws

(* isAvailable: the name is validated and resolved, nothing is loaded and   *)
(* no tier is looked at; whatever is thrown is caught and gives false.      *)
isAvailable(mods, libraryName) ==
    /\ validateLibraryName(libraryName) = ""
    /\ Resolves(mods, libraryName)

----------------------------------------------------------------------------
(* RequireLibraryContext: getAllDependencies.  A dependency map is a        *)
(* function from package names to version ranges.                           *)

NoDependencies == [k \in {} |-> ""]

(* JSON.parse of the text of a map *)
DependencyMap(leaf) ==
    CASE leaf = "{}" -> NoDependencies
      [] leaf = "{a:^1.0.0}" -> [k \in {"a"} |-> "^1.0.0"]
      [] leaf = "{a:^2.0.0}" -> [k \in {"a"} |-> "^2.0.0"]
      [] leaf = "{a:^3.0.0}" -> [k \in {"a"} |-> "^3.0.0"]
      [] leaf = "{b:^1.0.0}" -> [k \in {"b"} |-> "^1.0.0"]
      [] leaf = "{b:^2.0.0}" -> [k \in {"b"} |-> "^2.0.0"]
      [] leaf = "{a:^1.0.0,b:^1.0.0}" -> [k \in {"a", "b"} |-> "^1.0.0"]

(* packageInfo.field || {} *)
OrEmpty(packageInfo, field) ==
    IF HasMember(packageInfo, field)
    THEN DependencyMap((CHOOSE p \in packageInfo.props : p[1] = field)[2])
    ELSE NoDependencies

(* A merge in which the first map that has a key keeps it *)
Spread_FirstWins(a, b) ==
    [k \in DOMAIN a \cup DOMAIN b |-> IF k \in DOMAIN a THEN a[k] ELSE b[k]]

(* { ...a, ...b } *)
Spread(a, b) ==
    [k \in DOMAIN a \cup DOMAIN b |-> IF k \in DOMAIN b THEN b[k] ELSE a[k]]

(* getAllDependencies awaits getPackageInfo, whose StudylibError it lets    *)
(* through.                                                                 *)
getAllDependencies(cfg, m, files, mods, libraryName, t, io) ==
    Only({[value |-> IF info.error # "" \/ ~Truthy(info.value) THEN NoDependencies
                     ELSE Spread(Spread(OrEmpty(info.value, "dependencies"),
                                        OrEmpty(info.value, "devDependencies")),
                                 OrEmpty(info.value, "peerDependencies")),
           error |-> info.error, details |-> info.details,
           memoryCache |-> info.memoryCache, files |-> info.files] :
          info \in {getPackageInfo(cfg, m, files, mods, libraryName, t, io)}})

----------------------------------------------------------------------------
(* AIResponseCache *)

(* A key made without the itemsPerPage component *)
generateCacheKey_WithoutItemsPerPage(libraryName, libraryVersion, aiTool, itemsPerPage) ==
    Sha256Hex(libraryName \o Colon \o libraryVersion \o Colon \o aiTool)

generateCacheKey(libraryName, libraryVersion, aiTool, itemsPerPage) ==
    Sha256Hex(libraryName \o Colon \o libraryVersion \o Colon \o aiTool \o Colon
              \o DecimalString(itemsPerPage))

AIResponseCacheEntry(response, libraryName, libraryVersion, aiTool, t, itemsPerPage) ==
    [kind |-> "AIResponseCacheEntry", response |-> response,
     metadata |-> [libraryName |-> libraryName, libraryVersion |-> libraryVersion,
                   aiTool |-> aiTool, timestamp |-> t, itemsPerPage |-> itemsPerPage]]

LibraryCacheOptions ==
    [cacheDir |-> Some(LibraryCacheDir), ttl |-> Some(ResolverTtl), maxSize |-> None]
AiCacheOptions ==
    [cacheDir |-> Some(AiCacheDir), ttl |-> Some(ResponseTtl),
     maxSize |-> Some(ResponseMaxSize)]

----------------------------------------------------------------------------
(* AIService.generateDocumentation and StudyLibContext.study *)

(* The text a template literal gives for a string, and for undefined *)
Utf8(s) ==
    CASE s = "1.0.0" -> <<49, 46, 48, 46, 48>>
      [] s = "2.0.0" -> <<50, 46, 48, 46, 48>>
      [] s = "undefined" -> <<117, 110, 100, 101, 102, 105, 110, 101, 100>>

(* `${v.name}`: a member the value does not have reads as undefined *)
MemberText(v, name) ==
    IF \E p \in v.props : p[1] = name
    THEN Utf8((CHOOSE p \in v.props : p[1] = name)[2])
    ELSE Utf8("undefined")

(* A Promise: an object with none of the members of the value it settles to *)
Promise == [kind |-> "promise", props |-> {}]

(* v && typeof v === 'object' *)
IsObject(v) == v.kind \in {"object", "promise"}

(* AIResponseCache.get answers nothing at all *)
cachedResponse_Null(cached) == Null

(* AIResponseCache.get: cached?.response || null *)
cachedResponse(cached) ==
    IF Truthy(cached) /\ Truthy(cached.response) THEN cached.response ELSE Null

(* answer: the documentation the provider returns, parsed and validated;    *)
(* Undefined when the request fails or the answer does not validate.  The   *)
(* provider is Gemini, whose client is constructed without failure.         *)
(* provider counts the requests made to it; libraryVersion is the version   *)
(* component of the cache key.                                              *)
generateDocumentation(cfg, files, methodName, exports, packageInfo, aiTool, itemsPerPage, t, io, answer) ==
    IF ~IsObject(exports) \/ ~IsObject(packageInfo)
    THEN [value |-> Undefined, error |-> "VALIDATION_ERROR", source |-> "",
          libraryVersion |-> <<>>, provider |-> 0, files |-> files]
    ELSE
    LET libraryVersion == MemberText(packageInfo, "version")
        cacheKey == generateCacheKey(methodName, libraryVersion, aiTool, itemsPerPage)
        cached == get(cfg, files, cacheKey, t, io, FALSE)
        response == cachedResponse(cached.value)
        entry == AIResponseCacheEntry(answer, methodName, libraryVersion, aiTool, t,
                                      itemsPerPage)
    IN  IF Truthy(response)
        THEN [value |-> response, error |-> "", source |-> "cache",
              libraryVersion |-> libraryVersion, provider |-> 0, files |-> cached.files]
        ELSE IF answer = Undefined
        THEN [value |-> Undefined, error |-> "API_ERROR", source |-> "provider",
              libraryVersion |-> libraryVersion, provider |-> 1, files |-> cached.files]
        ELSE [value |-> answer, error |-> "", source |-> "provider",
              libraryVersion |-> libraryVersion, provider |-> 1,
              files |-> set(cfg, cached.files, cacheKey, entry, 1, t, <<>>, io, 0)]

----------------------------------------------------------------------------
(* AIService.validateResponse and the provider's answer.  The answer is the *)
(* value JSON.parse gives for the text the provider returned: an object     *)
(* whose member docs is an array of items or something else, or a value     *)
(* that is not an object; Throws is a request that fails or a text that     *)
(* does not parse.  The members of an item are leaves: "[]" is an array,    *)
(* "#1" a number, "true" and "false" booleans, anything else a string.      *)

Docs(items) == [kind |-> "object", props |-> {}, docs |-> [array |-> TRUE, items |-> items]]
NoDocs == [kind |-> "object", props |-> {}, docs |-> [array |-> FALSE, items |-> <<>>]]
MethodData(name, parameters, returnType, async) ==
    [object |-> TRUE, name |-> name, parameters |-> parameters, returnType |-> returnType,
     async |-> async]
NoMethodData ==
    [object |-> FALSE, name |-> "", parameters |-> "", returnType |-> "", async |-> ""]
Doc(methodData, documentation) == [methodData |-> methodData, documentation |-> documentation]

(* s.trim() === '' *)
TrimsToEmpty(s) == s \in {"", " "}

(* The checks of one item, without those of its documentation *)
validateDoc_MethodDataOnly(doc) ==
    IF ~doc.methodData.object THEN "VALIDATION_ERROR"
    ELSE IF TypeOf(doc.methodData.name) # "string" \/ TrimsToEmpty(doc.methodData.name)
    THEN "VALIDATION_ERROR"
    ELSE IF doc.methodData.parameters # "[]" THEN "VALIDATION_ERROR"
    ELSE IF TypeOf(doc.methodData.returnType) # "string" THEN "VALIDATION_ERROR"
    ELSE IF TypeOf(doc.methodData.async) # "boolean" THEN "VALIDATION_ERROR"
    ELSE ""

(* The body of the forEach: "" when the item passes, or the code of the     *)
(* StudylibError thrown                                                     *)
validateDoc(doc) ==
    IF ~doc.methodData.object THEN "VALIDATION_ERROR"
    ELSE IF TypeOf(doc.methodData.name) # "string" \/ TrimsToEmpty(doc.methodData.name)
    THEN "VALIDATION_ERROR"
    ELSE IF doc.methodData.parameters # "[]" THEN "VALIDATION_ERROR"
    ELSE IF TypeOf(doc.methodData.returnType) # "string" THEN "VALIDATION_ERROR"
    ELSE IF TypeOf(doc.methodData.async) # "boolean" THEN "VALIDATION_ERROR"
    ELSE IF TypeOf(doc.documentation) # "string" \/ TrimsToEmpty(doc.documentation)
    THEN "VALIDATION_ERROR"
    ELSE ""

(* "" when the response passes, or the code of the StudylibError thrown *)
validateResponse(response) ==
    IF response.kind # "object" THEN "VALIDATION_ERROR"
    ELSE IF ~response.docs.array THEN "VALIDATION_ERROR"
    ELSE IF Len(response.docs.items) = 0 THEN "DOCUMENTATION_ERROR"
    ELSE IF \E i \in 1..Len(response.docs.items) : validateDoc(response.docs.items[i]) # ""
    THEN "VALIDATION_ERROR"
    ELSE ""

(* generateGeminiResponse: the answer when the request, the parse and the   *)
(* validation all pass; whatever is thrown inside is thrown on as an        *)
(* API_ERROR, and there is no answer then.                                  *)
generateGeminiResponse(parsed) ==
    IF parsed = Throws \/ validateResponse(parsed) # ""
    THEN [value |-> Undefined, error |-> "API_ERROR"]
    ELSE [value |-> parsed, error |-> ""]

----------------------------------------------------------------------------
(* The application: one resolver, the response cache, and the libraries     *)
(* installed beside them.                                                   *)

NewCall(op, name, io) == [NoCall EXCEPT !.op = op, !.name = name, !.io = io]

(* new RequireLibraryContext() *)
NewRequireLibraryContext(mkdirFails) ==
    /\ fileCache = NoInstance
    /\ instance' = getInstance(instance, LibraryCacheOptions, mkdirFails)
    /\ options' = IF instance = NoInstance /\ ~mkdirFails THEN LibraryCacheOptions ELSE options
    /\ fileCache' = instance'
    /\ memoryCache' = <<>>
    /\ call' = [NewCall("new RequireLibraryContext", <<>>, "ok") EXCEPT
                    !.error = IF instance' = NoInstance THEN "CONFIG_ERROR" ELSE ""]
    /\ UNCHANGED <<disk, now, ticks, watch, last, aiResponseCache, modules>>

(* AIResponseCache.getInstance() *)
AIResponseCacheGetInstance(mkdirFails) ==
    /\ aiResponseCache = NoInstance
    /\ instance' = getInstance(instance, AiCacheOptions, mkdirFails)
    /\ options' = IF instance = NoInstance /\ ~mkdirFails THEN AiCacheOptions ELSE options
    /\ aiResponseCache' = instance'
    /\ call' = [NewCall("AIResponseCache.getInstance", <<>>, "ok") EXCEPT
                    !.error = IF instance' = NoInstance THEN "CONFIG_ERROR" ELSE ""]
    /\ UNCHANGED <<disk, now, ticks, watch, last, fileCache, memoryCache, modules>>

Context(libraryName, io) ==
    /\ fileCache # NoInstance
    /\ LET r == context(fileCache, memoryCache, disk[fileCache.cacheDir], modules,
                        libraryName, now, io)
       IN  /\ memoryCache' = r.memoryCache
           /\ disk' = [disk EXCEPT ![fileCache.cacheDir] = r.files]
           /\ call' = [op |-> "context", name |-> libraryName, io |-> io,
                       error |-> r.error, details |-> r.details, source |-> r.source,
                       value |-> r.exports, fileHash |-> r.fileHash]
    /\ UNCHANGED <<instance, options, now, ticks, watch, last, fileCache,
                   aiResponseCache, modules>>

GetPackageInfo(libraryName, io) ==
    /\ fileCache # NoInstance
    /\ LET r == getPackageInfo(fileCache, memoryCache, disk[fileCache.cacheDir], modules,
                               libraryName, now, io)
       IN  /\ memoryCache' = r.memoryCache
           /\ disk' = [disk EXCEPT ![fileCache.cacheDir] = r.files]
           /\ call' = [NewCall("getPackageInfo", libraryName, io) EXCEPT
                            !.error = r.error, !.details = r.details, !.value = r.value]
    /\ UNCHANGED <<instance, options, now, ticks, watch, last, fileCache,
                   aiResponseCache, modules>>

(* What a call returns when it is a boolean or an array of names *)
Bool(b) == [kind |-> "boolean", props |-> {}, bool |-> b]
Arr(items) == [kind |-> "array", props |-> {}, items |-> items]

HasDefaultExport(libraryName, io) ==
    /\ fileCache # NoInstance
    /\ LET r == hasDefaultExport(fileCache, memoryCache, disk[fileCache.cacheDir], modules,
                                 libraryName, now, io)
       IN  /\ memoryCache' = r.memoryCache
           /\ disk' = [disk EXCEPT ![fileCache.cacheDir] = r.files]
           /\ call' = [NewCall("hasDefaultExport", libraryName, io) EXCEPT
                            !.source = r.source, !.value = Bool(r.value)]
    /\ UNCHANGED <<instance, options, now, ticks, watch, last, fileCache,
                   aiResponseCache, modules>>

GetNamedExports(libraryName, io) ==
    /\ fileCache # NoInstance
    /\ LET r == getNamedExports(fileCache, memoryCache, disk[fileCache.cacheDir], modules,
                                libraryName, now, io)
       IN  /\ memoryCache' = r.memoryCache
           /\ disk' = [disk EXCEPT ![fileCache.cacheDir] = r.files]
           /\ call' = [NewCall("getNamedExports", libraryName, io) EXCEPT
                            !.value = Arr(r.value)]
    /\ UNCHANGED <<instance, options, now, ticks, watch, last, fileCache,
                   aiResponseCache, modules>>

IsAvailable(libraryName) ==
    /\ fileCache # NoInstance
    /\ call' = [NewCall("isAvailable", libraryName, "ok") EXCEPT
                    !.value = Bool(isAvailable(modules, libraryName))]
    /\ UNCHANGED <<instance, options, disk, now, ticks, watch, last, fileCache,
                   memoryCache, aiResponseCache, modules>>

(* What a call returns when it is a mapping of names to strings *)
Mapping(entries) == [kind |-> "mapping", props |-> {}, entries |-> entries]

GetAllDependencies(libraryName, io) ==
    /\ fileCache # NoInstance
    /\ LET r == getAllDependencies(fileCache, memoryCache, disk[fileCache.cacheDir], modules,
                                   libraryName, now, io)
       IN  /\ memoryCache' = r.memoryCache
           /\ disk' = [disk EXCEPT ![fileCache.cacheDir] = r.files]
           /\ call' = [NewCall("getAllDependencies", libraryName, io) EXCEPT
                            !.error = r.error, !.details = r.details,
                            !.value = Mapping(r.value)]
    /\ UNCHANGED <<instance, options, now, ticks, watch, last, fileCache,
                   aiResponseCache, modules>>

(* AIResponseCache.set *)
ResponseSet(libraryName, libraryVersion, aiTool, itemsPerPage, response, io) ==
    /\ aiResponseCache # NoInstance
    /\ LET cacheKey == generateCacheKey(libraryName, libraryVersion, aiTool, itemsPerPage)
           entry == AIResponseCacheEntry(response, libraryName, libraryVersion, aiTool,
                                         now, itemsPerPage)
       IN  disk' = [disk EXCEPT ![aiResponseCache.cacheDir] =
                        set(aiResponseCache, disk[aiResponseCache.cacheDir], cacheKey,
                            entry, 1, now, <<>>, io, 0)]
    /\ call' = NewCall("AIResponseCache.set", libraryName, io)
    /\ UNCHANGED <<instance, options, now, ticks, watch, last, fileCache, memoryCache,
                   aiResponseCache, modules>>

(* AIResponseCache.get: cached?.response || null *)
ResponseGet(libraryName, libraryVersion, aiTool, itemsPerPage, io) ==
    /\ aiResponseCache # NoInstance
    /\ LET cacheKey == generateCacheKey(libraryName, libraryVersion, aiTool, itemsPerPage)
           cached == get(aiResponseCache, disk[aiResponseCache.cacheDir], cacheKey,
                         now, io, FALSE)
       IN  /\ disk' = [disk EXCEPT ![aiResponseCache.cacheDir] = cached.files]
           /\ call' = [NewCall("AIResponseCache.get", libraryName, io) EXCEPT
                            !.value = IF Truthy(cached.value) /\ Truthy(cached.value.response)
                                      THEN cached.value.response ELSE Null]
    /\ UNCHANGED <<instance, options, now, ticks, watch, last, fileCache, memoryCache,
                   aiResponseCache, modules>>

(* AIResponseCache.invalidate: clear() of its store, whatever the library.  *)
(* The value of the call is a ghost: the files the store held when the     *)
(* call began.                                                              *)
ResponseInvalidate(libraryName, io, failing) ==
    /\ aiResponseCache # NoInstance
    /\ LET r == clear(disk[aiResponseCache.cacheDir], io, failing) IN
        /\ disk' = [disk EXCEPT ![aiResponseCache.cacheDir] = r.files]
        /\ call' = [NewCall("AIResponseCache.invalidate", libraryName, io) EXCEPT
                        !.error = r.error,
                        !.value = Arr(DOMAIN disk[aiResponseCache.cacheDir])]
    /\ UNCHANGED <<instance, options, now, ticks, watch, last, fileCache, memoryCache,
                   aiResponseCache, modules>>

StudyCall(op, name, io, r) ==
    [op |-> op, name |-> name, io |-> io, error |-> r.error, details |-> "",
     source |-> r.source,
     value |-> r.value, fileHash |-> <<>>, libraryVersion |-> r.libraryVersion,
     provider |-> r.provider]

(* AIService.generateDocumentation, of the AIService for Gemini ("g") *)
GenerateDocumentation(methodName, exports, packageInfo, itemsPerPage, io, answer) ==
    /\ aiResponseCache # NoInstance
    /\ LET r == generateDocumentation(aiResponseCache, disk[aiResponseCache.cacheDir],
                                      methodName, exports, packageInfo, <<103>>,
                                      itemsPerPage, now, io, answer)
       IN  /\ disk' = [disk EXCEPT ![aiResponseCache.cacheDir] = r.files]
           /\ call' = StudyCall("generateDocumentation", methodName, io, r)
    /\ UNCHANGED <<instance, options, now, ticks, watch, last, fileCache, memoryCache,
                   aiResponseCache, modules>>

(* generateDocumentation with the provider's answer as the provider gave    *)
(* it; `parsed` is kept in the call as a ghost.                             *)
GenerateDocumentationAsking(methodName, exports, packageInfo, itemsPerPage, io, parsed) ==
    /\ aiResponseCache # NoInstance
    /\ \E r \in {generateDocumentation(aiResponseCache, disk[aiResponseCache.cacheDir],
                                        methodName, exports, packageInfo, <<103>>,
                                        itemsPerPage, now, io,
                                        generateGeminiResponse(parsed).value)} :
           /\ disk' = [disk EXCEPT ![aiResponseCache.cacheDir] = r.files]
           /\ call' = [op |-> "generateDocumentation", name |-> methodName, io |-> io,
                       error |-> r.error, source |-> r.source, value |-> r.value,
                       libraryVersion |-> r.libraryVersion, provider |-> r.provider,
                       parsed |-> parsed]
    /\ UNCHANGED <<instance, options, now, ticks, watch, last, fileCache, memoryCache,
                   aiResponseCache, modules>>

(* StudyLibContext.study.  getPackageInfo and context are called without    *)
(* await: generateDocumentation is given their Promises, and nothing ever   *)
(* handles a rejection of either.  Where one of them rejects, node either   *)
(* ends the process (exits: what is held in memory is gone, the files       *)
(* stay) or only warns, as the runtime is set up.  The value is the         *)
(* response before its page is cut out.                                     *)
Study(methodName, itemsPerPage, io, answer, exits) ==
    /\ fileCache # NoInstance
    /\ aiResponseCache # NoInstance
    /\ IF methodName = <<>>
       THEN /\ call' = [NewCall("study", methodName, io) EXCEPT !.error = "VALIDATION_ERROR"]
            /\ UNCHANGED <<instance, options, disk, fileCache, memoryCache, aiResponseCache>>
       ELSE
       \E p \in {getPackageInfo(fileCache, memoryCache, disk[fileCache.cacheDir], modules,
                                methodName, now, io)} :
       \E c \in {context(fileCache, p.memoryCache, p.files, modules, methodName, now, io)} :
       \E resolved \in {[disk EXCEPT ![fileCache.cacheDir] = c.files]} :
       \E r \in {generateDocumentation(aiResponseCache, resolved[aiResponseCache.cacheDir],
                                       methodName, Promise, Promise, <<103>>, itemsPerPage,
                                       now, io, answer)} :
           IF (p.error # "" \/ c.error # "") /\ exits
           THEN /\ call' = [NewCall("study", methodName, io) EXCEPT
                                !.error = "unhandledRejection"]
                /\ disk' = resolved
                /\ instance' = NoInstance
                /\ options' = NoOptions
                /\ fileCache' = NoInstance
                /\ memoryCache' = <<>>
                /\ aiResponseCache' = NoInstance
           ELSE /\ call' = StudyCall("study", methodName, io, r)
                /\ disk' = [resolved EXCEPT ![aiResponseCache.cacheDir] = r.files]
                /\ memoryCache' = c.memoryCache
                /\ UNCHANGED <<instance, options, fileCache, aiResponseCache>>
    /\ UNCHANGED <<now, ticks, watch, last, modules>>

(* npm installs, updates or removes a library: its files change on disk *)
Install(libraryName, module) ==
    /\ modules[libraryName] # module
    /\ modules' = [modules EXCEPT ![libraryName] = module]
    /\ call' = NewCall("install", libraryName, "ok")
    /\ UNCHANGED <<instance, options, disk, now, ticks, watch, last, fileCache,
                   memoryCache, aiResponseCache>>

----------------------------------------------------------------------------
(* SpecApp: the resolver and the response cache in one process, over a     *)
(* span in which the clock does not advance.                               *)

ValidPackage ==
    [present |-> TRUE, text |-> <<49>>,
     json |-> Obj({<<"name", "l">>, <<"version", "1.0.0">>})]
InvalidPackage ==
    [present |-> TRUE, text |-> <<50>>, json |-> Obj({<<"name", "l">>})]

Module(main, exports, package) ==
    [installed |-> TRUE, main |-> main, exports |-> exports, package |-> package]

ModuleVersions ==
    {Module(<<49>>, Obj({<<"a", "1">>, <<"f", "fn">>}), ValidPackage),
     Module(<<50>>, Fn({<<"b", "2">>}), ValidPackage),
     Module(<<51>>, Null, NoPackage),
     Module(<<52>>, Obj({<<"a", "1">>}), InvalidPackage),
     NotInstalled}

AppNames == LibraryNames \cup {DotDot}
AppResponses == {Obj({<<"content", "doc">>})}
AppFailing ==
    IF aiResponseCache = NoInstance THEN {{}}
    ELSE SUBSET DOMAIN disk[aiResponseCache.cacheDir]

AppNext ==
    \/ \E mkdirFails \in BOOLEAN : NewRequireLibraryContext(mkdirFails)
    \/ \E mkdirFails \in BOOLEAN : AIResponseCacheGetInstance(mkdirFails)
    \/ \E libraryName \in AppNames, io \in {"ok", "readFails", "writeFails"} :
            Context(libraryName, io)
    \/ \E libraryName \in AppNames, io \in {"ok", "readFails", "writeFails"} :
            GetPackageInfo(libraryName, io)
    \/ \E libraryName \in LibraryNames, response \in AppResponses, io \in {"ok", "writeFails"} :
            ResponseSet(libraryName, <<49>>, <<103>>, 5, response, io)
    \/ \E libraryName \in LibraryNames, io \in {"ok", "readFails"} :
            ResponseGet(libraryName, <<49>>, <<103>>, 5, io)
    \/ \E libraryName \in LibraryNames, io \in {"ok", "readdirFails", "unlinkFails"} :
       \E failing \in {f \in AppFailing : (io = "unlinkFails") = (f # {})} :
            ResponseInvalidate(libraryName, io, failing)
    \/ \E libraryName \in LibraryNames, module \in ModuleVersions : Install(libraryName, module)

SpecApp == Init /\ [][AppNext]_vars

----------------------------------------------------------------------------
(* SpecResolver: one resolver over a span in which the clock advances and   *)
(* the libraries' files change; the store's I/O does not fail.              *)

MaxResolverTicks == 3

ResolverVersions ==
    [l \in ResolverNames |->
        IF l \in LibraryNames
        THEN {Module(<<49>>, Obj({<<"a", "1">>, <<"f", "fn">>}), ValidPackage),
              Module(<<50>>, Fn({<<"b", "2">>}), ValidPackage)}
        ELSE {Module(<<51>>, Obj({<<"a", "1">>}), NoPackage)}]

ResolverNext ==
    \/ NewRequireLibraryContext(FALSE)
    \/ \E libraryName \in ResolverNames : Context(libraryName, "ok")
    \/ \E libraryName \in ResolverNames : GetPackageInfo(libraryName, "ok")
    \/ \E libraryName \in ResolverNames : HasDefaultExport(libraryName, "ok")
    \/ \E libraryName \in ResolverNames : GetNamedExports(libraryName, "ok")
    \/ \E libraryName \in ResolverNames :
       \E module \in ResolverVersions[libraryName] : Install(libraryName, module)
    \/ \E d \in {150} : Tick(d, MaxResolverTicks)

SpecResolver == Init /\ [][ResolverNext]_vars

----------------------------------------------------------------------------
(* SpecCapacity: one resolver and more libraries than the in-memory tier    *)
(* has room for, all installed before the resolver is constructed.  The     *)
(* libraries are requested for the first time in the order of their names;  *)
(* the first of them is also requested again.  The clock advances once the *)
(* tier is full, by a second at a time, so that no entry outlives the       *)
(* freshness window.                                                        *)

MaxLibraries == 52
MaxCapacityTicks == 2

CapacityName(n) == <<64 + n>>
CapacityNames == {CapacityName(n) : n \in 1..MaxLibraries}

InitCapacity ==
    /\ instance = NoInstance
    /\ options = NoOptions
    /\ disk = [d \in Dirs |-> EmptyDir]
    /\ now = 0
    /\ ticks = 0
    /\ watch = NoWatch
    /\ last = NoLast
    /\ fileCache = NoInstance
    /\ memoryCache = <<>>
    /\ aiResponseCache = NoInstance
    /\ modules = [n \in CapacityNames |-> Module(<<49>>, Obj({<<"a", "1">>}), NoPackage)]
    /\ call = NoCall

(* The libraries a call can name: the first, and the next one that has not  *)
(* been requested yet (every library requested has its file in the store).  *)
Requestable ==
    IF fileCache = NoInstance THEN {}
    ELSE {CapacityName(1)} \cup
         {CapacityName(n) : n \in {Cardinality(DOMAIN disk[fileCache.cacheDir]) + 1}
                                    \cap (1..MaxLibraries)}

CapacityNext ==
    \/ NewRequireLibraryContext(FALSE)
    \/ \E libraryName \in Requestable : Context(libraryName, "ok")
    \/ \E d \in {1} : Len(memoryCache) >= maxMemoryCacheSize /\ Tick(d, MaxCapacityTicks)

SpecCapacity == InitCapacity /\ [][CapacityNext]_vars

----------------------------------------------------------------------------
(* SpecStudy: study of a library that is installed, upgraded and removed,   *)
(* over a span in which the clock does not advance.                         *)

UpgradedPackage ==
    [present |-> TRUE, text |-> <<51>>,
     json |-> Obj({<<"name", "l">>, <<"version", "2.0.0">>})]

StudyVersions ==
    {Module(<<49>>, Obj({<<"a", "1">>}), ValidPackage),
     Module(<<50>>, Obj({<<"a", "1">>}), UpgradedPackage),
     NotInstalled}

StudyAnswers == {Obj({<<"docs", "1">>}), Obj({<<"docs", "2">>})}

StudyNext ==
    \/ NewRequireLibraryContext(FALSE)
    \/ AIResponseCacheGetInstance(FALSE)
    \/ \E libraryName \in LibraryNames, module \in StudyVersions : Install(libraryName, module)
    \/ \E methodName \in LibraryNames \cup {<<>>}, answer \in StudyAnswers \cup {Undefined},
          exits \in BOOLEAN :
            Study(methodName, 5, "ok", answer, exits)

SpecStudy == Init /\ [][StudyNext]_vars

----------------------------------------------------------------------------
(* SpecDocs: generateDocumentation and the response cache for two          *)
(* libraries, with the store built for the response cache or for a         *)
(* resolver before it, store I/O that fails, and a clock that advances by   *)
(* the response cache's TTL.                                                *)

MaxDocsTicks == 1

DocsNext ==
    \/ NewRequireLibraryContext(FALSE)
    \/ AIResponseCacheGetInstance(FALSE)
    \/ \E methodName \in ResolverNames,
          exports \in {Obj({<<"a", "1">>}), Null},
          io \in {"ok", "readFails", "writeFails"},
          answer \in StudyAnswers \cup {Undefined} :
            GenerateDocumentation(methodName, exports, ValidPackage.json, 5, io, answer)
    \/ \E libraryName \in ResolverNames, io \in {"ok", "readFails"} :
            ResponseGet(libraryName, Utf8("1.0.0"), <<103>>, 5, io)
    \/ \E libraryName \in ResolverNames, io \in {"ok", "readdirFails", "unlinkFails"} :
       \E failing \in {f \in AppFailing : (io = "unlinkFails") = (f # {})} :
            ResponseInvalidate(libraryName, io, failing)
    \/ \E d \in {ResponseTtl} : Tick(d, MaxDocsTicks)

SpecDocs == Init /\ [][DocsNext]_vars

----------------------------------------------------------------------------
(* SpecErrors: one resolver called with names that pass and names that      *)
(* fail validation, for a library "l" whose entry point loads or throws and *)
(* whose package.json is valid, invalid, unreadable or missing; "m" is      *)
(* never installed.  The clock does not advance and the store's I/O does    *)
(* not fail.                                                                *)

ErrorNames ==
    {<<>>,                              \* ""
     <<46, 46>>,                        \* ".."
     <<46, 46, 47, 108>>,               \* "../l"
     <<47, 108>>,                       \* "/l"
     <<108, 47, 46, 46, 47, 46, 46>>,   \* "l/../.."
     <<108, 46, 46>>,                   \* "l.."
     <<108>>,                           \* "l"
     <<109>>}                           \* "m"

NumberVersionPackage ==
    [present |-> TRUE, text |-> <<52>>, json |-> Obj({<<"name", "l">>, <<"version", "#1">>})]
EmptyVersionPackage ==
    [present |-> TRUE, text |-> <<53>>, json |-> Obj({<<"name", "l">>, <<"version", "">>})]
UnreadablePackage == [present |-> TRUE, text |-> <<54>>, json |-> Throws]

ErrorVersions ==
    {Module(<<49>>, Fn({<<"b", "2">>}), ValidPackage),
     Module(<<50>>, Throws, ValidPackage),
     Module(<<51>>, Obj({<<"a", "1">>}), InvalidPackage),
     Module(<<52>>, Obj({<<"a", "1">>}), NumberVersionPackage),
     Module(<<53>>, Obj({<<"a", "1">>}), EmptyVersionPackage),
     Module(<<54>>, Obj({<<"a", "1">>}), UnreadablePackage),
     Module(<<55>>, Obj({<<"a", "1">>}), NoPackage),
     NotInstalled}

ErrorsNext ==
    \/ NewRequireLibraryContext(FALSE)
    \/ \E libraryName \in ErrorNames : Context(libraryName, "ok")
    \/ \E libraryName \in ErrorNames : GetPackageInfo(libraryName, "ok")
    \/ \E libraryName \in ErrorNames : HasDefaultExport(libraryName, "ok")
    \/ \E libraryName \in ErrorNames : GetNamedExports(libraryName, "ok")
    \/ \E libraryName \in LibraryNames, module \in ErrorVersions : Install(libraryName, module)

SpecErrors == Init /\ [][ErrorsNext]_vars

----------------------------------------------------------------------------
(* SpecDeps: getAllDependencies of a library whose package.json changes     *)
(* between descriptors with and without the three dependency maps.          *)

DepsPackage(text, maps) ==
    [present |-> TRUE, text |-> text,
     json |-> Obj({<<"name", "l">>, <<"version", "1.0.0">>} \cup maps)]

DepsVersions ==
    {Module(<<49>>, Obj({<<"a", "1">>}),
            DepsPackage(<<49>>, {<<"dependencies", "{a:^1.0.0}">>,
                                 <<"peerDependencies", "{a:^2.0.0}">>})),
     Module(<<49>>, Obj({<<"a", "1">>}),
            DepsPackage(<<50>>, {<<"dependencies", "{a:^1.0.0}">>,
                                 <<"devDependencies", "{a:^2.0.0}">>,
                                 <<"peerDependencies", "{a:^3.0.0}">>})),
     Module(<<49>>, Obj({<<"a", "1">>}),
            DepsPackage(<<51>>, {<<"dependencies", "{a:^1.0.0,b:^1.0.0}">>,
                                 <<"devDependencies", "{b:^2.0.0}">>})),
     Module(<<49>>, Obj({<<"a", "1">>}),
            DepsPackage(<<52>>, {<<"devDependencies", "{a:^2.0.0}">>,
                                 <<"peerDependencies", "{b:^1.0.0}">>})),
     Module(<<49>>, Obj({<<"a", "1">>}),
            DepsPackage(<<53>>, {<<"dependencies", "{}">>,
                                 <<"peerDependencies", "{a:^2.0.0}">>})),
     Module(<<49>>, Obj({<<"a", "1">>}), DepsPackage(<<54>>, {})),
     Module(<<49>>, Obj({<<"a", "1">>}), NoPackage),
     NotInstalled}

DepsNext ==
    \/ NewRequireLibraryContext(FALSE)
    \/ \E libraryName \in ResolverNames \cup {DotDot} : GetAllDependencies(libraryName, "ok")
    \/ \E libraryName \in LibraryNames : Context(libraryName, "ok")
    \/ \E libraryName \in LibraryNames, module \in DepsVersions : Install(libraryName, module)

SpecDeps == Init /\ [][DepsNext]_vars

----------------------------------------------------------------------------
(* SpecKey: generateCacheKey applied to two tuples of arguments, drawn from *)
(* names and versions with and without the delimiter ':' in them.           *)

KeyNames == {<<97>>, <<97, 58, 98>>, <<98>>}                \* "a", "a:b", "b"
KeyVersions == {<<49>>, <<98, 58, 49>>, <<50>>}             \* "1", "b:1", "2"
KeyTools == {<<103>>, <<111>>}                              \* "g", "o"
KeyItemsPerPage == {5, 10}
KeyTuples ==
    [libraryName : KeyNames, libraryVersion : KeyVersions, aiTool : KeyTools,
     itemsPerPage : KeyItemsPerPage]

InitKey ==
    /\ instance = NoInstance
    /\ options = NoOptions
    /\ disk = [d \in Dirs |-> EmptyDir]
    /\ now = 0
    /\ ticks = 0
    /\ watch = NoWatch
    /\ last = NoLast
    /\ fileCache = NoInstance
    /\ memoryCache = <<>>
    /\ aiResponseCache = NoInstance
    /\ modules = [n \in ResolverNames |-> NotInstalled]
    /\ call \in [op : {"arguments"}, first : KeyTuples, second : KeyTuples]

KeyOf(tuple) ==
    generateCacheKey(tuple.libraryName, tuple.libraryVersion, tuple.aiTool, tuple.itemsPerPage)

GenerateCacheKey ==
    /\ call.op = "arguments"
    /\ call' = [op |-> "generateCacheKey", first |-> call.first, second |-> call.second,
                firstKey |-> KeyOf(call.first), secondKey |-> KeyOf(call.second)]
    /\ UNCHANGED <<instance, options, disk, now, ticks, watch, last, fileCache, memoryCache,
                   aiResponseCache, modules>>

KeyNext == GenerateCacheKey

SpecKey == InitKey /\ [][KeyNext]_vars

----------------------------------------------------------------------------
(* SpecExports: one resolver over libraries whose exports have every shape  *)
(* checkDefaultExport tells apart (a function, an ES module with a default  *)
(* member, a plain object with and without a member `default`), an entry    *)
(* point that throws and a package.json that is invalid.  The store's reads *)
(* and writes may fail, and the clock advances past the in-memory tier's    *)
(* freshness window, so that entries leave the tier and are found in the    *)
(* store again.                                                             *)

MaxExportsTicks == 1

EsModule == Obj({<<"__esModule", "true">>, <<"default", "fn">>, <<"a", "1">>})
PlainDefault == Obj({<<"default", "1">>, <<"a", "1">>})

ExportsVersions ==
    [l \in ResolverNames |->
        IF l \in LibraryNames
        THEN {Module(<<49>>, Fn({<<"b", "2">>}), ValidPackage),
              Module(<<50>>, EsModule, ValidPackage),
              Module(<<51>>, PlainDefault, NoPackage),
              Module(<<52>>, Throws, ValidPackage),
              Module(<<53>>, Obj({<<"a", "1">>}), InvalidPackage)}
        ELSE {Module(<<54>>, Obj({<<"a", "1">>, <<"f", "fn">>}), ValidPackage)}]

ExportsNext ==
    \/ NewRequireLibraryContext(FALSE)
    \/ \E libraryName \in ResolverNames, io \in {"ok", "readFails", "writeFails"} :
            Context(libraryName, io)
    \/ \E libraryName \in ResolverNames : HasDefaultExport(libraryName, "ok")
    \/ \E libraryName \in ResolverNames : GetNamedExports(libraryName, "ok")
    \/ \E libraryName \in ResolverNames :
       \E module \in ExportsVersions[libraryName] : Install(libraryName, module)
    \/ \E libraryName \in ResolverNames \cup {<<>>, DotDot} : IsAvailable(libraryName)
    \/ \E d \in {memoryCacheTimeout + 1} : Tick(d, MaxExportsTicks)

SpecExports == Init /\ [][ExportsNext]_vars

----------------------------------------------------------------------------
(* SpecShared: one resolver over the library "l" and a library installed    *)
(* under the name "l:package", whose entry point is a JSON file: a file of  *)
(* its own, or one with the bytes of the package.json of "l".  The key of   *)
(* the store for the descriptor of "l", "l" + ":package:" + hash, is then   *)
(* the key for the exports of "l:package", "l:package" + ":" + hash.        *)

MaxSharedTicks == 1

PackageNamed == <<108, 58, 112, 97, 99, 107, 97, 103, 101>>      \* "l:package"
SharedNames == LibraryNames \cup {PackageNamed}

SharedVersions ==
    [l \in SharedNames |->
        IF l \in LibraryNames
        THEN {Module(<<55>>, Obj({<<"a", "1">>}), ValidPackage),
              Module(<<56>>, Obj({<<"a", "1">>}), UpgradedPackage)}
        ELSE {Module(ValidPackage.text, ValidPackage.json, NoPackage),
              Module(<<57>>, Obj({<<"b", "2">>}), NoPackage)}]

InitShared ==
    /\ instance = NoInstance
    /\ options = NoOptions
    /\ disk = [d \in Dirs |-> EmptyDir]
    /\ now = 0
    /\ ticks = 0
    /\ watch = NoWatch
    /\ last = NoLast
    /\ fileCache = NoInstance
    /\ memoryCache = <<>>
    /\ aiResponseCache = NoInstance
    /\ modules = [n \in SharedNames |-> NotInstalled]
    /\ call = NoCall

SharedNext ==
    \/ NewRequireLibraryContext(FALSE)
    \/ \E libraryName \in SharedNames : Context(libraryName, "ok")
    \/ \E libraryName \in SharedNames : GetPackageInfo(libraryName, "ok")
    \/ \E libraryName \in SharedNames :
       \E module \in SharedVersions[libraryName] : Install(libraryName, module)
    \/ \E d \in {memoryCacheTimeout + 1} : Tick(d, MaxSharedTicks)

SpecShared == InitShared /\ [][SharedNext]_vars

----------------------------------------------------------------------------
(* SpecAnswers: generateDocumentation for one library with a provider       *)
(* whose answers pass validateResponse or fail one of its checks each, a    *)
(* request that fails, store I/O that fails, and a clock that advances by   *)
(* the response cache's TTL.                                                *)

MaxAnswersTicks == 1

GoodDoc == Doc(MethodData("f", "[]", "void", "false"), "doc")
AsyncDoc == Doc(MethodData("g", "[]", "Promise", "true"), "doc")

ParsedAnswers ==
    {Docs(<<GoodDoc>>),
     Docs(<<GoodDoc, AsyncDoc>>),
     Throws,
     Null,
     NoDocs,
     Docs(<<>>),
     Docs(<<Doc(NoMethodData, "doc")>>),
     Docs(<<GoodDoc, Doc(MethodData(" ", "[]", "void", "false"), "doc")>>),
     Docs(<<Doc(MethodData("#1", "[]", "void", "false"), "doc")>>),
     Docs(<<Doc(MethodData("f", "x", "void", "false"), "doc")>>),
     Docs(<<Doc(MethodData("f", "[]", "#1", "false"), "doc")>>),
     Docs(<<Doc(MethodData("f", "[]", "void", "yes"), "doc")>>),
     Docs(<<GoodDoc, Doc(MethodData("g", "[]", "void", "true"), "")>>),
     Docs(<<Doc(MethodData("f", "[]", "void", "false"), "#1")>>)}

AnswersNext ==
    \/ AIResponseCacheGetInstance(FALSE)
    \/ \E methodName \in LibraryNames, io \in {"ok", "readFails", "writeFails"},
          parsed \in ParsedAnswers :
            GenerateDocumentationAsking(methodName, Obj({<<"a", "1">>}), ValidPackage.json,
                                        5, io, parsed)
    \/ \E libraryName \in LibraryNames, io \in {"ok", "readdirFails"} :
            ResponseInvalidate(libraryName, io, {})
    \/ \E d \in {ResponseTtl} : Tick(d, MaxAnswersTicks)

SpecAnswers == Init /\ [][AnswersNext]_vars

----------------------------------------------------------------------------
(* Resolver calls in flight.  An async function runs until its first await  *)
(* when it is called, and goes on from an await when what it waits for has  *)
(* settled; between two awaits nothing else runs.  A frame is a call in     *)
(* flight: pc is the await it stands at, key and value what it is storing,  *)
(* size, order and stats the locals of ensureCacheSpace (size, the rest of  *)
(* fileStats, and the stats taken when the directory was listed), result    *)
(* and error what the Promise settled with.  The awaits of a frame:         *)
(*   "hash"    getFileHash of the file resolved                             *)
(*   "get"     fileCache.get of the key                                     *)
(*   "size"    getCacheSize at the head of ensureCacheSpace                 *)
(*   "list"    readdir and the stats of ensureCacheSpace                    *)
(*   "unlink"  the unlink of the next file of fileStats                     *)
(*   "write"   writeFile                                                    *)
(*   "insert"  the return of fileCache.set to context                       *)
(* context awaits its own getPackageInfo: the frame of context then has    *)
(* phase "package" and stands at the awaits of that call.  Each await is    *)
(* one step; the reads of a step see the directory as it is then.  A state  *)
(* of the two calls is the directory, the in-memory tier and the frames g   *)
(* (getPackageInfo) and c (context).                                        *)

NoFrame ==
    [pc |-> "idle", phase |-> "", key |-> <<>>, value |-> Undefined, size |-> 0,
     order |-> <<>>, stats |-> EmptyDir, result |-> Undefined, error |-> ""]

Returned(p, result, error) ==
    [NoFrame EXCEPT !.pc = "done", !.result = result, !.error = error]

(* One await of fileCache.set: the frame and the directory after it *)
setResumes(cfg, p, files, t) ==
    IF p.pc = "size"
    THEN {[files |-> files,
           p |-> IF currentSize > cfg.maxSize
                 THEN [p EXCEPT !.pc = "list", !.size = currentSize]
                 ELSE [p EXCEPT !.pc = "write"]] :
            currentSize \in {getCacheSize(files, FALSE)}}
    ELSE IF p.pc = "list"
    THEN {[files |-> files,
           p |-> [p EXCEPT !.pc = IF order = <<>> THEN "write" ELSE "unlink",
                           !.order = order, !.stats = files]] :
            order \in Orders(files)}
    ELSE IF p.pc = "unlink"
    THEN IF Head(p.order) \notin DOMAIN files
         THEN {[files |-> files,
                p |-> [p EXCEPT !.pc = "write", !.order = <<>>, !.stats = EmptyDir]]}
         ELSE {[files |-> Remove(files, {Head(p.order)}),
                p |-> IF size <= cfg.maxSize \/ Tail(p.order) = <<>>
                      THEN [p EXCEPT !.pc = "write", !.size = size, !.order = <<>>,
                                     !.stats = EmptyDir]
                      ELSE [p EXCEPT !.size = size, !.order = Tail(p.order)]] :
                 size \in {p.size - p.stats[Head(p.order)].size}}
    ELSE {[files |-> Put(files, getCacheFilePath(p.key),
                         [timestamp |-> t,
                          value |-> JsonStringify(p.value),
                          size |-> 1,
                          atime |-> IF getCacheFilePath(p.key) \in DOMAIN files
                                    THEN files[getCacheFilePath(p.key)].atime ELSE t]),
           p |-> [p EXCEPT !.pc = "written", !.size = 0]]}

(* getPackageInfo from its call to its first await *)
getPackageInfoCalled(mods, libraryName, t, m) ==
    IF validateLibraryName(libraryName) # ""
    THEN [memoryCache |-> m, p |-> Returned(NoFrame, Undefined, "VALIDATION_ERROR")]
    ELSE
    \* touched: the map after the lookup
    IF MapHas(m, libraryName) /\ Truthy(MapGet(m, libraryName).packageInfo)
    THEN [memoryCache |-> getFromMemoryCache(m, libraryName, t),
          p |-> Returned(NoFrame, MapGet(m, libraryName).packageInfo, "")]
    ELSE IF ~Resolves(mods, libraryName) \/ ~mods[libraryName].package.present
    THEN [memoryCache |-> getFromMemoryCache(m, libraryName, t),
          p |-> Returned(NoFrame, Null, "")]
    ELSE [memoryCache |-> getFromMemoryCache(m, libraryName, t),
          p |-> [NoFrame EXCEPT !.pc = "hash", !.phase = "package"]]

(* getPackageInfo from one await to the next; what it returned is the       *)
(* frame Returned                                                           *)
getPackageInfoResumes(cfg, mods, libraryName, t, p, files) ==
    IF p.pc = "hash"
    THEN {[files |-> files,
           p |-> [p EXCEPT !.pc = "get",
                           !.key = libraryName \o PackageInfix
                                   \o getFileHash(mods[libraryName].package.text)]]}
    ELSE IF p.pc = "get"
    THEN {[files |-> fileCached.files,
           p |-> IF Truthy(fileCached.value)
                 THEN Returned(p, fileCached.value, "")
                 ELSE IF mods[libraryName].package.json = Throws
                 THEN Returned(p, Null, "")
                 ELSE IF ~isValidPackageInfo(mods[libraryName].package.json)
                 THEN Returned(p, Undefined, "VALIDATION_ERROR")
                 ELSE [p EXCEPT !.pc = "size", !.value = mods[libraryName].package.json]] :
            fileCached \in {get(cfg, files, p.key, t, "ok", FALSE)}}
    ELSE {[files |-> n.files,
           p |-> IF n.p.pc = "written" THEN Returned(p, p.value, "") ELSE n.p] :
            n \in setResumes(cfg, p, files, t)}

(* context from its call to its first await *)
contextCalled(mods, libraryName, t, m) ==
    IF validateLibraryName(libraryName) # ""
    THEN [memoryCache |-> m, p |-> Returned(NoFrame, Undefined, "VALIDATION_ERROR")]
    ELSE IF MapHas(m, libraryName) /\ Truthy(MapGet(m, libraryName).exports)
    THEN [memoryCache |-> getFromMemoryCache(m, libraryName, t),
          p |-> Returned(NoFrame, MapGet(m, libraryName).exports, "")]
    ELSE IF ~Resolves(mods, libraryName)
    THEN [memoryCache |-> getFromMemoryCache(m, libraryName, t),
          p |-> Returned(NoFrame, Undefined, contextCatch(Error("MODULE_NOT_FOUND")).code)]
    ELSE [memoryCache |-> getFromMemoryCache(m, libraryName, t),
          p |-> [NoFrame EXCEPT !.pc = "hash", !.phase = "library"]]

(* The cache entry of context once its getPackageInfo has returned          *)
(* packageInfo, and the frame at the first await of the set that stores it  *)
cacheEntryFor(mods, libraryName, t, packageInfo) ==
    LibraryCache(IF checkDefaultExport(mods[libraryName].exports)
                 THEN mergedExports(mods[libraryName].exports)
                 ELSE mods[libraryName].exports,
                 packageInfo, t, checkDefaultExport(mods[libraryName].exports),
                 getFileHash(mods[libraryName].main))

storingEntry(mods, libraryName, t, packageInfo) ==
    [NoFrame EXCEPT !.pc = "size", !.phase = "entry",
                    !.key = libraryName \o Colon \o getFileHash(mods[libraryName].main),
                    !.value = cacheEntryFor(mods, libraryName, t, packageInfo)]

(* What context does with the frame its own getPackageInfo is at *)
contextAwaits(mods, libraryName, t, q) ==
    IF q.pc # "done" THEN q
    ELSE IF q.error # ""
    THEN Returned(q, Undefined, contextCatch(StudylibError(q.error, "")).code)
    ELSE storingEntry(mods, libraryName, t, q.result)

(* context from one await to the next *)
contextResumes(cfg, mods, libraryName, t, p, files, m) ==
    IF p.phase = "library" /\ p.pc = "hash"
    THEN {[files |-> files, memoryCache |-> m,
           p |-> [p EXCEPT !.pc = "get",
                           !.key = libraryName \o Colon
                                   \o getFileHash(mods[libraryName].main)]]}
    ELSE IF p.phase = "library" /\ p.pc = "get"
    THEN {IF Truthy(fileCached.value)
          THEN [files |-> fileCached.files,
                memoryCache |-> setInMemoryCache(m, libraryName, fileCached.value, t),
                p |-> Returned(p, fileCached.value.exports, "")]
          ELSE IF mods[libraryName].exports = Throws
          THEN [files |-> fileCached.files, memoryCache |-> m,
                p |-> Returned(p, Undefined, contextCatch(Error("ERR_REQUIRE")).code)]
          ELSE [files |-> fileCached.files,
                memoryCache |-> getPackageInfoCalled(mods, libraryName, t, m).memoryCache,
                p |-> contextAwaits(mods, libraryName, t,
                                    getPackageInfoCalled(mods, libraryName, t, m).p)] :
            fileCached \in {AsLibraryCache(get(cfg, files, p.key, t, "ok", FALSE))}}
    ELSE IF p.phase = "package"
    THEN {[files |-> n.files, memoryCache |-> m,
           p |-> contextAwaits(mods, libraryName, t, n.p)] :
            n \in getPackageInfoResumes(cfg, mods, libraryName, t, p, files)}
    ELSE IF p.pc = "insert"
    THEN {[files |-> files,
           memoryCache |-> setInMemoryCache(m, libraryName, p.value, t),
           p |-> Returned(p, p.value.exports, "")]}
    ELSE {[files |-> n.files, memoryCache |-> m,
           p |-> IF n.p.pc = "written" THEN [n.p EXCEPT !.pc = "insert"] ELSE n.p] :
            n \in setResumes(cfg, p, files, t)}

(* The states after one step of getPackageInfo, and of context *)
gResumes(cfg, mods, libraryName, t, s) ==
    IF s.g.pc \in {"idle", "done"} THEN {}
    ELSE {[s EXCEPT !.files = n.files, !.g = n.p] :
            n \in getPackageInfoResumes(cfg, mods, libraryName, t, s.g, s.files)}

cResumes(cfg, mods, libraryName, t, s) ==
    IF s.c.pc \in {"idle", "done"} THEN {}
    ELSE {[s EXCEPT !.files = n.files, !.memoryCache = n.memoryCache, !.c = n.p] :
            n \in contextResumes(cfg, mods, libraryName, t, s.c, s.files, s.memoryCache)}

gCalled(mods, libraryName, t, s) ==
    [s EXCEPT !.memoryCache = getPackageInfoCalled(mods, libraryName, t, s.memoryCache).memoryCache,
              !.g = getPackageInfoCalled(mods, libraryName, t, s.memoryCache).p]

cCalled(mods, libraryName, t, s) ==
    [s EXCEPT !.memoryCache = contextCalled(mods, libraryName, t, s.memoryCache).memoryCache,
              !.c = contextCalled(mods, libraryName, t, s.memoryCache).p]

(* The states a call awaited to its end can leave *)
RECURSIVE gAwaited(_, _, _, _, _)
gAwaited(cfg, mods, libraryName, t, s) ==
    IF s.g.pc = "done" THEN {s}
    ELSE UNION {gAwaited(cfg, mods, libraryName, t, n) :
                    n \in gResumes(cfg, mods, libraryName, t, s)}

RECURSIVE cAwaited(_, _, _, _, _)
cAwaited(cfg, mods, libraryName, t, s) ==
    IF s.c.pc = "done" THEN {s}
    ELSE UNION {cAwaited(cfg, mods, libraryName, t, n) :
                    n \in cResumes(cfg, mods, libraryName, t, s)}

(* `await getPackageInfo(name)` and then `await context(name)` *)
OneAfterTheOther(cfg, mods, libraryName, t, s) ==
    UNION {cAwaited(cfg, mods, libraryName, t, cCalled(mods, libraryName, t, g)) :
                g \in gAwaited(cfg, mods, libraryName, t, gCalled(mods, libraryName, t, s))}

(* What two calls returned and left behind *)
Outcome(s) ==
    [packageInfo |-> s.g.result, packageInfoError |-> s.g.error,
     exports |-> s.c.result, exportsError |-> s.c.error,
     memoryCache |-> s.memoryCache, files |-> s.files]

InFlight == call.op = "resolving" /\ (call.g.pc # "done" \/ call.c.pc # "done")
Settled == call.op = "resolving" /\ call.g.pc = "done" /\ call.c.pc = "done"

Resolving ==
    [files |-> disk[fileCache.cacheDir], memoryCache |-> memoryCache,
     g |-> call.g, c |-> call.c]

(* The two statements of study: getPackageInfo(methodName) and then         *)
(* context(methodName), neither awaited.  start is the state they were      *)
(* called in and at the time.                                               *)
StudyCalls(methodName) ==
    /\ fileCache # NoInstance
    /\ ~InFlight
    /\ \E s \in {[files |-> disk[fileCache.cacheDir], memoryCache |-> memoryCache,
                  g |-> NoFrame, c |-> NoFrame]} :
       \E n \in {cCalled(modules, methodName, now, gCalled(modules, methodName, now, s))} :
            /\ memoryCache' = n.memoryCache
            /\ call' = [op |-> "resolving", name |-> methodName, io |-> "ok", error |-> "",
                        details |-> "", source |-> "", value |-> Undefined,
                        fileHash |-> <<>>, g |-> n.g, c |-> n.c, start |-> s, at |-> now]
    /\ UNCHANGED <<instance, options, disk, now, ticks, watch, last, fileCache,
                   aiResponseCache, modules>>

GetPackageInfoResumes ==
    /\ call.op = "resolving"
    /\ \E n \in gResumes(fileCache, modules, call.name, now, Resolving) :
            /\ disk' = [disk EXCEPT ![fileCache.cacheDir] = n.files]
            /\ call' = [call EXCEPT !.g = n.g]
    /\ UNCHANGED <<instance, options, now, ticks, watch, last, fileCache, memoryCache,
                   aiResponseCache, modules>>

ContextResumes ==
    /\ call.op = "resolving"
    /\ \E n \in cResumes(fileCache, modules, call.name, now, Resolving) :
            /\ disk' = [disk EXCEPT ![fileCache.cacheDir] = n.files]
            /\ memoryCache' = n.memoryCache
            /\ call' = [call EXCEPT !.c = n.c]
    /\ UNCHANGED <<instance, options, now, ticks, watch, last, fileCache,
                   aiResponseCache, modules>>

----------------------------------------------------------------------------
(* SpecUnawaited: study's two resolver calls for the library "l", each      *)
(* going on from await to await in any order.  The store is the one         *)
(* instance of the process: built by the resolver, with the default         *)
(* maxSize, or built before it by another client of CacheManager with a     *)
(* maxSize of two bytes, whose entries of one or two bytes then fill the    *)
(* directory the resolver writes to.  While the calls are in flight the     *)
(* clock stands and nothing else runs.                                      *)

MaxUnawaitedTicks == 1

UnawaitedVersions ==
    {Module(<<55>>, Obj({<<"a", "1">>}), ValidPackage),
     Module(<<56>>, Obj({<<"a", "1">>}), InvalidPackage),
     Module(<<57>>, Throws, ValidPackage)}

UnawaitedNext ==
    \/ \E opts \in EvictOptions : instance = NoInstance /\ GetInstance(opts, FALSE)
    \/ \E key \in FaultKeys, value \in EvictValues, size \in EntrySizes :
            ~InFlight /\ fileCache = NoInstance /\ Set(key, value, size, "ok", Unlimited, FALSE)
    \/ ~InFlight /\ NewRequireLibraryContext(FALSE)
    \/ \E libraryName \in LibraryNames :
       \E module \in UnawaitedVersions : ~InFlight /\ Install(libraryName, module)
    \/ \E libraryName \in LibraryNames : StudyCalls(libraryName)
    \/ GetPackageInfoResumes
    \/ ContextResumes
    \/ ~InFlight /\ Tick(1, MaxUnawaitedTicks)

SpecUnawaited == Init /\ [][UnawaitedNext]_vars

----------------------------------------------------------------------------
(* Claims *)

Total(files) == SumSizes(files, DOMAIN files)
Serializable(v) == JsonStringify(v) = v
WatchedPath == getCacheFilePath(watch.key)

(* C1: a get(k) that starts after set(k, v) has completed returns v,        *)
(* provided the write did not fail, the TTL has not elapsed and no          *)
(* delete(k), clear() or eviction of k happened in between.  `watch` holds  *)
(* such a set(k, v) for as long as none of these has happened.              *)
C1_GetAfterSetReturnsValue ==
    (/\ last.op = "get" /\ last.io = "ok"
     /\ watch # NoWatch /\ last.key = watch.key
     /\ Serializable(watch.value)
     /\ now - watch.at <= instance.ttl)
    => last.value = watch.value

(* C2, as stated: whenever get(k) finds an entry file, it returns the       *)
(* stored value exactly when now - timestamp <= ttl, and when               *)
(* now - timestamp > ttl it returns absent and the file is gone afterwards. *)
C2_GetDecidedByTtlAlone ==
    [][LET filePath == getCacheFilePath(last'.key) IN
       (last'.op = "get" /\ filePath \in DOMAIN Files) =>
          LET entry == Files[filePath]
              live == now - entry.timestamp <= instance.ttl
          IN  /\ (last'.value = entry.value) <=> live
              /\ ~live => /\ last'.value = Null
                          /\ filePath \notin DOMAIN disk'[instance.cacheDir]]_vars

(* C2, amended: the same for a get whose file read and whose unlink of the  *)
(* expired file do not fail.                                                *)
C2_TtlDecidesGetWithoutIoFailure ==
    [][LET filePath == getCacheFilePath(last'.key) IN
       (last'.op = "get" /\ last'.io = "ok" /\ filePath \in DOMAIN Files) =>
          LET entry == Files[filePath]
              live == now - entry.timestamp <= instance.ttl
          IN  /\ (last'.value = entry.value) <=> live
              /\ ~live => /\ last'.value = Null
                          /\ filePath \notin DOMAIN disk'[instance.cacheDir]]_vars

(* A get that found the entry expired, returned absent and removed the file *)
C2_Witness ==
    /\ last.op = "get" /\ last.io = "ok" /\ last.outcome = "expired"
    /\ last.value = Null
    /\ getCacheFilePath(last.key) \notin DOMAIN Files

(* C3: with ttl = 0 configured, set(k, v) followed immediately by get(k)    *)
(* returns absent.                                                          *)
C3_ZeroTtlExpiresAtOnce ==
    [][(/\ options.ttl = Some(0)
        /\ last.op = "set" /\ last.io = "ok"
        /\ last'.op = "get" /\ last'.io = "ok" /\ last'.key = last.key)
       => last'.value = Null]_vars

C5_EvictsOldestFirstAndNoMore ==
    [][last'.op = "set" =>
        LET evicted == last'.evicted
            latest == {e \in evicted : \A o \in evicted : Files[o].atime <= Files[e].atime}
        IN  /\ evicted \subseteq DOMAIN Files
            /\ evicted # {} => Total(Files) > instance.maxSize
            /\ \A e \in evicted : \A s \in DOMAIN Files \ evicted :
                    Files[e].atime <= Files[s].atime
            /\ evicted # {} => \E e \in latest :
                    Total(Files) - SumSizes(Files, evicted \ {e}) > instance.maxSize]_vars

(* A set whose eviction deleted an entry and left another one *)
C5_Witness ==
    /\ last.op = "set"
    /\ last.evicted # {}
    /\ \E p \in DOMAIN Files : p # getCacheFilePath(last.key)

(* C6: the resolver's store and the response cache's store each apply      *)
(* their own configuration, whichever of the two is constructed first:      *)
(* library-cache directory and 7-day TTL for the resolver; ai-cache         *)
(* directory, 30-day TTL and 500MB limit for the response cache.            *)
C6_EachStoreAppliesItsOwnConfiguration ==
    /\ fileCache # NoInstance =>
            /\ fileCache.cacheDir = LibraryCacheDir
            /\ fileCache.ttl = ResolverTtl
    /\ aiResponseCache # NoInstance =>
            /\ aiResponseCache.cacheDir = AiCacheDir
            /\ aiResponseCache.ttl = ResponseTtl
            /\ aiResponseCache.maxSize = ResponseMaxSize

(* C7: set and invalidate of the response cache leave every entry file the  *)
(* resolver wrote (a LibraryCache or a package descriptor) in place and     *)
(* unchanged, and context and getPackageInfo of the resolver leave every    *)
(* response entry in place.                                                 *)
C7_StoresLeaveEachOthersEntries ==
    [][/\ call'.op \in {"AIResponseCache.set", "AIResponseCache.invalidate"} =>
            \A d \in Dirs : \A p \in DOMAIN disk[d] :
                disk[d][p].value.kind # "AIResponseCacheEntry" =>
                    p \in DOMAIN disk'[d] /\ disk'[d][p] = disk[d][p]
       /\ call'.op \in {"context", "getPackageInfo"} =>
            \A d \in Dirs : \A p \in DOMAIN disk[d] :
                disk[d][p].value.kind = "AIResponseCacheEntry" =>
                    p \in DOMAIN disk'[d] /\ disk'[d][p] = disk[d][p]]_vars

(* C8: a context(name) that returns exports returns those of an entry made  *)
(* for the entry-point file as it is now: the hash the entry holds is the   *)
(* hash of the file's present bytes, so no exports cached for an older      *)
(* content are returned once the bytes have changed.                        *)
C8_ChangedFileIsNeverServedFromCache ==
    [][(/\ call'.op = "context" /\ call'.error = ""
        /\ modules[call'.name].installed)
       => call'.fileHash = getFileHash(modules[call'.name].main)]_vars

(* C9: when context(name) has returned and is called again, no other call   *)
(* and no change of the library's files in between, the second call is a    *)
(* cache hit: require does not run again.                                   *)
C9_SecondCallIsACacheHit ==
    [][(/\ call.op = "context" /\ call.error = ""
        /\ call'.op = "context" /\ call'.name = call.name)
       => call'.source # "load"]_vars

(* C10: distinct keys have distinct entry files, so get, set and delete of  *)
(* a key k2 leave the entry stored under another key k1 as it was (an       *)
(* eviction by set aside): delete(k2) does not remove it and set(k2, v)     *)
(* does not replace its value.                                              *)
C10_OtherKeysLeaveTheEntry ==
    [][(/\ watch # NoWatch
        /\ last'.op \in {"get", "set", "delete"}
        /\ last'.key # watch.key
        /\ last'.evicted = {}
        /\ WatchedPath \in DOMAIN Files)
       => /\ WatchedPath \in DOMAIN disk'[instance.cacheDir]
          /\ disk'[instance.cacheDir][WatchedPath].value = Files[WatchedPath].value
          /\ disk'[instance.cacheDir][WatchedPath].timestamp = Files[WatchedPath].timestamp]_vars


(* A library whose entry is in the in-memory tier *)
Cached(m, libraryName) == MapHas(m, libraryName)
Expired(entry, t) == t - entry.lastAccessed > memoryCacheTimeout

(* C11: after any sequence of resolver operations the in-memory tier holds  *)
(* at most 50 entries (maxMemoryCacheSize); 51 distinct libraries inserted  *)
(* leave exactly 50 present.                                                *)
C11_AtMostFiftyEntries == Len(memoryCache) <= maxMemoryCacheSize

(* C12: when the capacity eviction removes an entry (an entry that has not  *)
(* expired leaves the tier), every entry that survives the call had, when   *)
(* the eviction ran, a lastAccessed at or after that of the entry removed.  *)
C12_EvictionRemovesTheOldest ==
    [][\A i \in 1..Len(memoryCache) :
          (/\ ~Cached(memoryCache', memoryCache[i].key)
           /\ ~Expired(memoryCache[i].value, now))
          => \A j \in 1..Len(memoryCache) :
                Cached(memoryCache', memoryCache[j].key)
                => memoryCache[j].value.lastAccessed >= memoryCache[i].value.lastAccessed]_vars

(* A load has just put the 52nd library into a tier that held 51 entries    *)
(* of different ages: one of them was evicted.                              *)
C12_Witness ==
    /\ fileCache # NoInstance
    /\ call.op = "context" /\ call.source = "load"
    /\ Cardinality(DOMAIN disk[fileCache.cacheDir]) = maxMemoryCacheSize + 2
    /\ Len(memoryCache) = maxMemoryCacheSize + 1
    /\ \E i, j \in 1..Len(memoryCache) :
            memoryCache[i].value.lastAccessed # memoryCache[j].value.lastAccessed


(* The call that has just returned was answered by the in-memory tier *)
ServedFromMemory ==
    /\ now' = now
    /\ \/ call'.op \in {"context", "hasDefaultExport"} /\ call'.source = "memory"
       \/ /\ call'.op = "getPackageInfo"
          /\ validateLibraryName(call'.name) = ""
          /\ Cached(memoryCache, call'.name)
          /\ Truthy(MapGet(memoryCache, call'.name).packageInfo)

(* C13: an in-memory entry whose lastAccessed is more than 5 minutes        *)
(* (memoryCacheTimeout) in the past is never served as a hit by context,    *)
(* getPackageInfo or hasDefaultExport: whenever one of them is answered by  *)
(* the in-memory tier, the entry had not expired when the call began.       *)
C13_ExpiredEntryIsNeverAHit ==
    [][ServedFromMemory => ~Expired(MapGet(memoryCache, call'.name), now)]_vars

(* C14: every read that finds an entry in the in-memory tier leaves that    *)
(* entry's lastAccessed at the current time, and no step removes an entry   *)
(* whose lastAccessed is within 5 minutes of the current time; so an entry  *)
(* read at least once in every 5 minutes is never dropped by the freshness  *)
(* cleanup.                                                                 *)
C14_ReadHitRefreshesAndFreshEntriesStay ==
    [][/\ (/\ now' = now
           /\ call'.op \in {"context", "getPackageInfo", "hasDefaultExport", "getNamedExports"}
           /\ Cached(memoryCache, call'.name))
          => /\ Cached(memoryCache', call'.name)
             /\ MapGet(memoryCache', call'.name).lastAccessed = now
       /\ \A i \in 1..Len(memoryCache) :
            ~Expired(memoryCache[i].value, now) => Cached(memoryCache', memoryCache[i].key)]_vars

(* "l" was loaded at 0 and read at 150; at 450, more than 5 minutes after   *)
(* it was loaded, the load of "m" has run the cleanup and "l" is still in   *)
(* the tier.                                                                *)
C14_Witness ==
    /\ fileCache # NoInstance
    /\ now = 450
    /\ call.op = "context" /\ call.name = <<109>> /\ call.source = "load"
    /\ Cached(memoryCache, <<108>>)
    /\ MapGet(memoryCache, <<108>>).lastAccessed = 150
    /\ \E p \in DOMAIN disk[fileCache.cacheDir] :
        LET file == disk[fileCache.cacheDir][p] IN
        /\ file.timestamp = 0
        /\ file.value.kind = "LibraryCache"
        /\ file.value.fileHash = MapGet(memoryCache, <<108>>).fileHash

(* What a resolver whose in-memory tier is empty returns for the call that  *)
(* has just returned, over the same store and the same library files.  In   *)
(* SpecResolver the store of such a resolver holds the same files as the    *)
(* store here until the first call whose results differ.                    *)
WithoutMemoryTier ==
    LET files == disk[fileCache.cacheDir]
        name == call'.name
        io == call'.io
    IN  CASE call'.op = "context" ->
                context(fileCache, <<>>, files, modules, name, now, io).exports
          [] call'.op = "getPackageInfo" ->
                getPackageInfo(fileCache, <<>>, files, modules, name, now, io).value
          [] call'.op = "hasDefaultExport" ->
                Bool(hasDefaultExport(fileCache, <<>>, files, modules, name, now, io).value)
          [] call'.op = "getNamedExports" ->
                Arr(getNamedExports(fileCache, <<>>, files, modules, name, now, io).value)

(* C15: the in-memory tier is a pure accelerator: context,                  *)
(* hasDefaultExport, getNamedExports and getPackageInfo each return what a  *)
(* resolver whose in-memory tier is always empty returns.                   *)
C15_SameResultsAsWithoutMemoryTier ==
    [][(/\ now' = now
        /\ call'.op \in {"context", "getPackageInfo", "hasDefaultExport", "getNamedExports"})
       => call'.value = WithoutMemoryTier]_vars

(* C16: in a study request, the libraryVersion component of the key of the  *)
(* response cache is the version field of the package descriptor resolved   *)
(* for the library, so that documentation cached for one version is never   *)
(* returned for another.                                                    *)
C16_KeyVersionIsThePackageVersion ==
    [][(/\ call'.op = "study" /\ call'.error = ""
        /\ Truthy(getPackageInfo(fileCache, memoryCache, disk[fileCache.cacheDir], modules,
                                 call'.name, now, call'.io).value))
       => call'.libraryVersion =
            MemberText(getPackageInfo(fileCache, memoryCache, disk[fileCache.cacheDir],
                                      modules, call'.name, now, call'.io).value,
                       "version")]_vars

(* The file of the response cache for the key of the call of                *)
(* generateDocumentation that has just returned, and whether the store      *)
(* held a live entry in it when the call began.                             *)
DocsPath == getCacheFilePath(generateCacheKey(call'.name, call'.libraryVersion, <<103>>, 5))
DocsLive(p) ==
    /\ p \in DOMAIN disk[aiResponseCache.cacheDir]
    /\ ~(now - disk[aiResponseCache.cacheDir][p].timestamp > aiResponseCache.ttl)
DocsCall ==
    /\ now' = now
    /\ call'.op = "generateDocumentation"
    /\ call'.error # "VALIDATION_ERROR"

(* C17: generateDocumentation on a cache miss calls the provider once and   *)
(* stores the response under the (library, version, tool, itemsPerPage)     *)
(* key before returning it; a call while the entry of its key is live       *)
(* returns the stored response without calling the provider.                *)
C17_MissStoresAndLiveEntryIsServed ==
    [][DocsCall => \A p \in {DocsPath} :
        IF DocsLive(p)
        THEN /\ call'.provider = 0
             /\ call'.value = disk[aiResponseCache.cacheDir][p].value.response
        ELSE /\ call'.provider = 1
             /\ call'.error = ""
                => /\ p \in DOMAIN disk'[aiResponseCache.cacheDir]
                   /\ disk'[aiResponseCache.cacheDir][p].value.response = call'.value
                   /\ disk'[aiResponseCache.cacheDir][p].timestamp = now]_vars

(* C17 as amended: the same, where the store's write does not fail on the   *)
(* miss and its read does not fail while the entry is live (a failed write  *)
(* is swallowed and stores nothing; a failed read is a miss, and the        *)
(* provider is called).                                                     *)
C17_MissStoresAndLiveEntryIsServedWithoutIoFailure ==
    [][DocsCall => \A p \in {DocsPath} :
        IF DocsLive(p) /\ call'.io # "readFails"
        THEN /\ call'.provider = 0
             /\ call'.value = disk[aiResponseCache.cacheDir][p].value.response
        ELSE /\ call'.provider = 1
             /\ (call'.error = "" /\ call'.io # "writeFails")
                => /\ p \in DOMAIN disk'[aiResponseCache.cacheDir]
                   /\ disk'[aiResponseCache.cacheDir][p].value.response = call'.value
                   /\ disk'[aiResponseCache.cacheDir][p].timestamp = now]_vars

(* A call of generateDocumentation has been answered from the response      *)
(* cache, which an earlier call had filled, after the clock advanced.       *)
C17_Witness ==
    /\ call.op = "generateDocumentation"
    /\ call.source = "cache"
    /\ call.provider = 0
    /\ call.value \in StudyAnswers
    /\ now = ResponseTtl

(* The components in which two tuples of arguments differ *)
Differing(a, b) == {f \in DOMAIN a : a[f] # b[f]}

(* C18: generateCacheKey is a function of its four arguments: equal         *)
(* arguments give the same key, and two tuples of arguments that differ in  *)
(* exactly one of the four components give different keys.                  *)
C18_KeyIsAFunctionOfEachComponent ==
    call.op = "generateCacheKey" =>
        /\ call.first = call.second => call.firstKey = call.secondKey
        /\ Cardinality(Differing(call.first, call.second)) = 1
                => call.firstKey # call.secondKey

(* Keys have been made for two tuples that differ in the library name       *)
(* alone, one of the names with the delimiter in it.                        *)
C18_Witness ==
    /\ call.op = "generateCacheKey"
    /\ Differing(call.first, call.second) = {"libraryName"}
    /\ call.first.libraryName = <<97, 58, 98>>
    /\ call.firstKey # call.secondKey

(* C19: any two distinct tuples, those whose string components contain the  *)
(* delimiter included, are joined into distinct strings before hashing and  *)
(* so have distinct keys: a get for one tuple never returns the response    *)
(* stored under another.                                                    *)
C19_DistinctTuplesHaveDistinctKeys ==
    (call.op = "generateCacheKey" /\ call.first # call.second)
        => call.firstKey # call.secondKey

(* The keys of the response cache, for the libraries and versions of        *)
(* SpecDocs                                                                 *)
ResponseKeys ==
    {generateCacheKey(libraryName, Utf8(version), <<103>>, 5) :
        libraryName \in ResolverNames, version \in {"1.0.0", "2.0.0"}}

(* C20: after invalidate(libraryName) has returned normally, the response   *)
(* cache returns absent for every key, the keys of other libraries          *)
(* included: no file of its store is left.                                  *)
C20_InvalidateEmptiesTheResponseCache ==
    [][(call'.op = "AIResponseCache.invalidate" /\ call'.error = "")
       => /\ disk'[aiResponseCache.cacheDir] = EmptyDir
          /\ \A cacheKey \in ResponseKeys :
                cachedResponse(get(aiResponseCache, disk'[aiResponseCache.cacheDir],
                                   cacheKey, now, "ok", FALSE).value) = Null]_vars

(* invalidate("l") has returned normally; when it began the store held the  *)
(* response of another library, "m", and now it holds nothing.              *)
C20_Witness ==
    /\ aiResponseCache # NoInstance
    /\ call.op = "AIResponseCache.invalidate" /\ call.name = <<108>> /\ call.error = ""
    /\ getCacheFilePath(generateCacheKey(<<109>>, Utf8("1.0.0"), <<103>>, 5))
            \in call.value.items
    /\ disk[aiResponseCache.cacheDir] = EmptyDir

(* C21: after clear() has returned normally, get returns absent for every   *)
(* key, and so for every key that was set before the clear.                 *)
C21_GetAfterClearReturnsAbsent ==
    (last.op = "clear" /\ last.outcome = "")
    => \A key \in FaultKeys :
            LET r == get(instance, Files, key, now, "ok", FALSE) IN
            r.value = Null /\ r.outcome = "absent"

(* clear() has returned normally and has removed the files of both entries  *)
(* that had been set.                                                       *)
C21_Witness ==
    /\ last.op = "clear" /\ last.outcome = ""
    /\ last.evicted = {getCacheFilePath(key) : key \in FaultKeys}
    /\ Files = EmptyDir

(* C22: clear() raises CONFIG_ERROR when the directory cannot be enumerated  *)
(* and when the deletion of any file fails, and it returns normally only    *)
(* with no file left in the directory.                                      *)
C22_ClearFailsLoudlyOrEmptiesTheDirectory ==
    last.op = "clear" =>
        /\ last.io \in {"readdirFails", "unlinkFails"} => last.outcome = "CONFIG_ERROR"
        /\ last.outcome \in {"", "CONFIG_ERROR"}
        /\ last.outcome = "" => Files = EmptyDir

(* clear() has raised CONFIG_ERROR: of two files it has deleted one, and    *)
(* the one whose deletion failed is still in the directory.                 *)
C22_Witness ==
    /\ last.op = "clear" /\ last.io = "unlinkFails"
    /\ last.outcome = "CONFIG_ERROR"
    /\ Cardinality(last.evicted) = 1
    /\ Cardinality(DOMAIN Files) = 1

(* The files of the store after the step *)
FilesAfter == disk'[instance.cacheDir]

(* C23, as stated: get, set and delete raise nothing to their caller,       *)
(* whatever filesystem call fails inside them; a get in which one fails     *)
(* returns absent, and a set or a delete in which one fails is a no-op (it  *)
(* leaves the store as it was).                                             *)
C23_FailuresAreSwallowedAsNoOps ==
    [][last'.op \in {"get", "set", "delete"} =>
        /\ last'.error = ""
        /\ (last'.op = "get" /\ last'.fault # "") => last'.value = Null
        /\ (last'.op \in {"set", "delete"} /\ last'.fault # "") => FilesAfter = Files]_vars

(* C23, amended: get, set and delete raise nothing to their caller.  A get  *)
(* whose read or whose unlink of an expired file fails returns absent; a    *)
(* delete whose unlink fails leaves the store as it was; a set whose write  *)
(* fails stores nothing (every file left is a file that was there,          *)
(* unchanged: the eviction before the write may have removed others); a set *)
(* whose size accounting or eviction fails still writes its entry.          *)
C23_FailuresAreSwallowed ==
    [][last'.op \in {"get", "set", "delete"} =>
        /\ last'.error = ""
        /\ (last'.op = "get" /\ last'.fault # "") => last'.value = Null
        /\ (last'.op = "delete" /\ last'.fault # "") => FilesAfter = Files
        /\ (last'.op = "set" /\ last'.fault = "writeFile") =>
                \A p \in DOMAIN FilesAfter : p \in DOMAIN Files /\ FilesAfter[p] = Files[p]
        /\ (last'.op = "set" /\ last'.fault \in {"readdir", "unlink"}) =>
                /\ getCacheFilePath(last'.key) \in DOMAIN FilesAfter
                /\ FilesAfter[getCacheFilePath(last'.key)].timestamp = now]_vars

(* A set has returned without raising: its write failed, after its          *)
(* eviction had removed an entry.                                           *)
C23_Witness ==
    /\ last.op = "set" /\ last.fault = "writeFile" /\ last.error = ""
    /\ last.evicted # {}
    /\ getCacheFilePath(last.key) \notin DOMAIN Files

(* C24: after delete(k), get(k) returns absent; delete raises nothing, for  *)
(* a key that has no entry included; and get of every other key returns     *)
(* after delete(k) what it returned before it.                              *)
C24_DeleteRemovesItsEntryAndNoOther ==
    [][last'.op = "delete" =>
        /\ get(instance, FilesAfter, last'.key, now, "ok", FALSE).value = Null
        /\ last'.error = ""
        /\ \A key \in StoreKeys \ {last'.key} :
                get(instance, FilesAfter, key, now, "ok", FALSE).value
                    = get(instance, Files, key, now, "ok", FALSE).value]_vars

(* A name that is empty, or that after path.normalize contains ".." or is   *)
(* an absolute path                                                         *)
RefusedName(libraryName) ==
    \/ libraryName = <<>>
    \/ Includes(normalize(libraryName), DotDot)
    \/ isAbsolute(normalize(libraryName))

(* C25: for every such name, context and getPackageInfo raise the           *)
(* VALIDATION_ERROR of the name's validation (its details hold the name)    *)
(* before anything else is done: no module is resolved or loaded, and       *)
(* neither the in-memory tier nor the store is read or written.             *)
C25_RefusedNamesFailBeforeResolution ==
    [][(call'.op \in {"context", "getPackageInfo"} /\ RefusedName(call'.name))
       => /\ call'.error = "VALIDATION_ERROR"
          /\ call'.details = "libraryName"
          /\ call'.source = ""
          /\ memoryCache' = memoryCache
          /\ disk' = disk]_vars

(* context("l/../..") has raised VALIDATION_ERROR on a resolver whose tiers  *)
(* both hold an entry of "l".                                               *)
C25_Witness ==
    /\ fileCache # NoInstance
    /\ call.op = "context" /\ call.name = <<108, 47, 46, 46, 47, 46, 46>>
    /\ call.error = "VALIDATION_ERROR"
    /\ Cached(memoryCache, <<108>>)
    /\ disk[fileCache.cacheDir] # EmptyDir

(* The error require.resolve or require throws in a call of context that    *)
(* no tier answers: "" when the library resolves and loads                  *)
LoadFailure(libraryName) ==
    IF ~Resolves(modules, libraryName) THEN "MODULE_NOT_FOUND"
    ELSE IF modules[libraryName].exports = Throws THEN "ERR_REQUIRE"
    ELSE ""

(* C26: a context(name) that fails raises VALIDATION_ERROR or               *)
(* LIBRARY_NOT_FOUND; and for a name that passes validation, when           *)
(* resolving or loading the library throws an error that is not a           *)
(* StudylibError, context raises LIBRARY_NOT_FOUND with that error as its   *)
(* details.                                                                 *)
C26_ContextFailsWithValidationOrNotFound ==
    [][call'.op = "context" =>
        /\ call'.error \in {"", "VALIDATION_ERROR", "LIBRARY_NOT_FOUND"}
        /\ (/\ ~RefusedName(call'.name)
            /\ call'.source \notin {"memory", "file"}
            /\ LoadFailure(call'.name) # "")
           => /\ call'.error = "LIBRARY_NOT_FOUND"
              /\ call'.details = LoadFailure(call'.name)
        /\ call'.error = "LIBRARY_NOT_FOUND" =>
              /\ LoadFailure(call'.name) # ""
              /\ call'.details = LoadFailure(call'.name)]_vars

(* context("l") has raised LIBRARY_NOT_FOUND for a library whose entry      *)
(* point throws when it is loaded, the error thrown in its details.         *)
C26_Witness ==
    /\ call.op = "context" /\ call.name = <<108>>
    /\ call.error = "LIBRARY_NOT_FOUND"
    /\ call.details = "ERR_REQUIRE"
    /\ call.source = "load"

(* C27: hasDefaultExport and getNamedExports raise nothing, and for a name  *)
(* that is refused, a library that does not resolve and a library whose     *)
(* load throws, hasDefaultExport returns false and getNamedExports the      *)
(* empty sequence.                                                          *)
C27_DerivedMethodsGiveSafeDefaults ==
    [][call'.op \in {"hasDefaultExport", "getNamedExports"} =>
        /\ call'.error = ""
        /\ (RefusedName(call'.name) \/ LoadFailure(call'.name) # "") =>
                IF call'.op = "hasDefaultExport"
                THEN call'.value = Bool(FALSE)
                ELSE call'.value = Arr({})]_vars

(* The package.json of a library, as it is now: whether it can be resolved  *)
(* and read, and whether what it parses to has a name and a version that    *)
(* are strings.                                                             *)
DescriptorLoads(libraryName) ==
    /\ Resolves(modules, libraryName)
    /\ modules[libraryName].package.present
    /\ modules[libraryName].package.json # Throws
InvalidShape(packageInfo) ==
    \/ packageInfo.kind # "object"
    \/ \E field \in {"name", "version"} :
            \A p \in packageInfo.props : p[1] = field => TypeOf(p[2]) # "string"

(* C28: for a name that passes validation, getPackageInfo returns absent    *)
(* and raises nothing when the package.json cannot be resolved or read; it  *)
(* raises VALIDATION_ERROR when the package.json loads and has an invalid   *)
(* shape, and then leaves the store as it was.                              *)
C28_AbsentDescriptorIsAbsentInvalidOneIsAnError ==
    [][(call'.op = "getPackageInfo" /\ ~RefusedName(call'.name)) =>
        /\ ~DescriptorLoads(call'.name) => call'.value = Null /\ call'.error = ""
        /\ (/\ DescriptorLoads(call'.name)
            /\ InvalidShape(modules[call'.name].package.json))
           => /\ call'.error = "VALIDATION_ERROR"
              /\ disk' = disk]_vars

(* A descriptor whose name and version are non-empty strings *)
NonEmptyNameAndVersion(packageInfo) ==
    /\ packageInfo.kind = "object"
    /\ \A field \in {"name", "version"} :
            \E p \in packageInfo.props :
                p[1] = field /\ TypeOf(p[2]) = "string" /\ p[2] # ""

(* The package descriptors the store holds: those stored under their own    *)
(* key and those inside the entries of libraries                            *)
StoredDescriptors(files) ==
    {files[p].value : p \in {q \in DOMAIN files : files[q].value.kind = "object"}}
    \cup {files[p].value.packageInfo :
            p \in {q \in DOMAIN files : /\ files[q].value.kind = "LibraryCache"
                                         /\ files[q].value.packageInfo # Null}}

(* C29: a package descriptor whose name or version is missing, is not a     *)
(* string or is the empty string is never returned by getPackageInfo and    *)
(* never written to the store.                                              *)
C29_OnlyNonEmptyNameAndVersionAreAccepted ==
    /\ (call.op = "getPackageInfo" /\ call.error = "" /\ call.value # Null)
            => NonEmptyNameAndVersion(call.value)
    /\ fileCache # NoInstance =>
            \A packageInfo \in StoredDescriptors(disk[fileCache.cacheDir]) :
                NonEmptyNameAndVersion(packageInfo)

(* The descriptor getPackageInfo gives the call of getAllDependencies that  *)
(* has just returned, and its three maps in the order runtime, development, *)
(* peer                                                                     *)
DescriptorGiven ==
    getPackageInfo(fileCache, memoryCache, disk[fileCache.cacheDir], modules,
                   call'.name, now, call'.io).value
MapsOf(packageInfo) ==
    << OrEmpty(packageInfo, "dependencies"), OrEmpty(packageInfo, "devDependencies"),
       OrEmpty(packageInfo, "peerDependencies") >>

(* C30: the keys of the mapping getAllDependencies returns are the keys of  *)
(* the runtime, development and peer maps of the descriptor together; the   *)
(* value of a key is its value in the last of the three maps that has it;   *)
(* and with no descriptor the mapping is empty.                             *)
C30_DependenciesAreMergedLastWins ==
    [][(call'.op = "getAllDependencies" /\ call'.error = "") =>
        LET result == call'.value.entries IN
        IF DescriptorGiven = Null THEN DOMAIN result = {}
        ELSE LET maps == MapsOf(DescriptorGiven) IN
             /\ DOMAIN result = UNION {DOMAIN maps[i] : i \in 1..3}
             /\ \A k \in DOMAIN result :
                    \E i \in 1..3 :
                        /\ k \in DOMAIN maps[i]
                        /\ \A j \in (i + 1)..3 : k \notin DOMAIN maps[j]
                        /\ result[k] = maps[i][k]]_vars

(* getAllDependencies has returned {a: "^2.0.0"} for the descriptor with    *)
(* dependencies {a: "^1.0.0"} and peerDependencies {a: "^2.0.0"}.           *)
C30_Witness ==
    /\ call.op = "getAllDependencies" /\ call.error = ""
    /\ modules[call.name].package.present
    /\ modules[call.name].package.json.props
            = {<<"name", "l">>, <<"version", "1.0.0">>,
               <<"dependencies", "{a:^1.0.0}">>, <<"peerDependencies", "{a:^2.0.0}">>}
    /\ call.value.entries = [k \in {"a"} |-> "^2.0.0"]

(* C31: getNamedExports(name) returns the keys of the exports context(name) *)
(* gives (those of the entry the call leaves in the in-memory tier), with   *)
(* the key `default` removed exactly when the entry's hasDefaultExport flag *)
(* is true: without a default export a member named `default` is kept.      *)
C31_NamedExportsAreTheKeysWithoutADetectedDefault ==
    [][(call'.op = "getNamedExports" /\ Cached(memoryCache', call'.name)) =>
        \A entry \in {MapGet(memoryCache', call'.name)} :
            /\ call'.value = Arr(IF entry.hasDefaultExport
                                 THEN ObjectKeys(entry.exports) \ {"default"}
                                 ELSE ObjectKeys(entry.exports))
            /\ (~entry.hasDefaultExport /\ HasMember(entry.exports, "default"))
                    => "default" \in call'.value.items]_vars

(* getNamedExports("l") has returned "default" and "a" for a library whose  *)
(* exports are a plain object with a member `default`, and no default       *)
(* export was detected.                                                     *)
C31_Witness ==
    /\ call.op = "getNamedExports" /\ call.name = <<108>>
    /\ call.value = Arr({"default", "a"})
    /\ Cached(memoryCache, <<108>>)
    /\ ~MapGet(memoryCache, <<108>>).hasDefaultExport

(* C32: isAvailable(name) raises nothing; it returns false for a name that  *)
(* is refused and for a library that does not resolve; it does not load the *)
(* library (one whose entry point throws when loaded is available); and it  *)
(* leaves the in-memory tier and the store as they were.                    *)
C32_IsAvailableOnlyResolves ==
    [][call'.op = "isAvailable" =>
        /\ call'.error = ""
        /\ (RefusedName(call'.name) \/ ~Resolves(modules, call'.name))
                => call'.value = Bool(FALSE)
        /\ (Resolves(modules, call'.name) /\ modules[call'.name].exports = Throws)
                => call'.value = Bool(TRUE)
        /\ memoryCache' = memoryCache
        /\ disk' = disk]_vars

(* isAvailable("l") has returned true for a library whose entry point       *)
(* throws when it is loaded, on a resolver whose tiers both hold an entry   *)
(* of the library as it was before.                                         *)
C32_Witness ==
    /\ fileCache # NoInstance
    /\ call.op = "isAvailable" /\ call.name = <<108>>
    /\ call.value = Bool(TRUE)
    /\ modules[<<108>>].exports = Throws
    /\ Cached(memoryCache, <<108>>)
    /\ disk[fileCache.cacheDir] # EmptyDir

(* C33, as stated: after any set, the files of the directory total at most  *)
(* maxSize and the size of the entry just written together.                 *)
C33_AnySetOverflowsByAtMostItsEntry ==
    last.op = "set" =>
        \A filePath \in {getCacheFilePath(last.key)} :
            filePath \in DOMAIN Files
                => Total(Files) - instance.maxSize <= Files[filePath].size

(* C33, amended: a set whose size accounting and eviction did not fail      *)
(* finds the directory trimmed to maxSize at most before it writes, so what *)
(* the other files total after it is within maxSize, and the overflow is at *)
(* most the size of the entry written.                                      *)
C33_OthersWithinMaxSizeUnlessEvictionFails ==
    (last.op = "set" /\ last.fault \notin {"readdir", "unlink"}) =>
        \A filePath \in {getCacheFilePath(last.key)} :
            /\ Total(Remove(Files, {filePath})) <= instance.maxSize
            /\ filePath \in DOMAIN Files
                    => Total(Files) - instance.maxSize <= Files[filePath].size

(* A set of one byte has evicted the oldest entry of a directory that was   *)
(* above maxSize, and has left it one byte above maxSize.                   *)
C33_Witness ==
    /\ last.op = "set" /\ last.fault = ""
    /\ Cardinality(last.evicted) = 1
    /\ getCacheFilePath(last.key) \in DOMAIN Files
    /\ Files[getCacheFilePath(last.key)].size = 1
    /\ Total(Files) = instance.maxSize + 1

(* C34: whenever context inserts an entry into the in-memory tier, after a  *)
(* load or after a hit in the store, the entry's lastAccessed is the time   *)
(* of the insertion, and a cleanup pass run at any time of the next five    *)
(* minutes leaves the entry in the tier.                                    *)
C34_InsertedEntryIsFreshForFiveMinutes ==
    [][(call'.op = "context" /\ call'.error = "" /\ call'.source \in {"load", "file"}) =>
        /\ Cached(memoryCache', call'.name)
        /\ MapGet(memoryCache', call'.name).lastAccessed = now
        /\ \A d \in {0, memoryCacheTimeout} :
                Cached(cleanMemoryCache(memoryCache', now + d), call'.name)]_vars

(* What a load of the library, as it is installed, gives context to return  *)
LoadedExports(libraryName) ==
    IF checkDefaultExport(modules[libraryName].exports)
    THEN mergedExports(modules[libraryName].exports)
    ELSE modules[libraryName].exports

(* C35: a context(name) served from a hit in the store returns exports with *)
(* the keys of the exports that the load of the same file returned, and     *)
(* leaves in the in-memory tier the hasDefaultExport flag of that load.     *)
C35_StoreHitGivesTheKeysOfTheLoad ==
    [][(call'.op = "context" /\ call'.error = "" /\ call'.source = "file") =>
        /\ ObjectKeys(call'.value) = ObjectKeys(LoadedExports(call'.name))
        /\ MapGet(memoryCache', call'.name).hasDefaultExport
                = checkDefaultExport(modules[call'.name].exports)]_vars

(* The entries of libraries the store holds under the key of a library and  *)
(* of the hash of one of its files                                          *)
LibraryEntries(files, libraryName, fileHash) ==
    {files[p].value : p \in {q \in {getCacheFilePath(libraryName \o Colon \o fileHash)} :
                                q \in DOMAIN files /\ files[q].value.kind = "LibraryCache"}}

(* The hashes of the files the libraries of the specifications have *)
FileHashes == {getFileHash(<<byte>>) : byte \in 49..57}

(* C36: after context(name) has returned from a load or from a hit in the   *)
(* store, the in-memory tier holds an entry for name whose fileHash is the  *)
(* hash the call computed of the library's file; and every LibraryCache the *)
(* store holds under the key name + ":" + H has the fileHash H.             *)
C36_EntriesCarryTheHashOfTheirKey ==
    [][(call'.op = "context" /\ call'.error = "" /\ call'.source \in {"load", "file"}) =>
        /\ Cached(memoryCache', call'.name)
        /\ MapGet(memoryCache', call'.name).fileHash = getFileHash(modules[call'.name].main)
        /\ \A libraryName \in DOMAIN modules, fileHash \in FileHashes :
                \A entry \in LibraryEntries(disk'[fileCache.cacheDir], libraryName, fileHash) :
                    entry.fileHash = fileHash]_vars

(* C37: a context(name) that raises has added no entry for name to the      *)
(* in-memory tier, and has added or changed no LibraryCache of the store.   *)
C37_FailedContextCachesNothing ==
    [][(call'.op = "context" /\ call'.error # "") =>
        /\ Cached(memoryCache', call'.name) => Cached(memoryCache, call'.name)
        /\ \A files \in {disk[fileCache.cacheDir]}, after \in {disk'[fileCache.cacheDir]} :
                \A q \in DOMAIN after :
                    after[q].value.kind = "LibraryCache"
                        => q \in DOMAIN files /\ after[q] = files[q]]_vars

(* context("l") has raised VALIDATION_ERROR for a library whose entry point *)
(* was loaded and whose package.json was then found invalid: neither tier   *)
(* holds anything of "l".                                                   *)
C37_Witness ==
    /\ fileCache # NoInstance
    /\ call.op = "context" /\ call.name = <<108>>
    /\ call.error = "VALIDATION_ERROR" /\ call.details = "packageInfo"
    /\ call.source = "load"
    /\ ~Cached(memoryCache, <<108>>)
    /\ disk[fileCache.cacheDir] = EmptyDir

(* The codes of the errors the resolver raises for the library of the study *)
(* that has just returned: those of getPackageInfo and of context           *)
ResolverErrors ==
    {r.error : r \in {getPackageInfo(fileCache, memoryCache, disk[fileCache.cacheDir],
                                      modules, call'.name, now, call'.io),
                       context(fileCache, memoryCache, disk[fileCache.cacheDir],
                               modules, call'.name, now, call'.io)}} \ {""}

(* C38: in study(name) the provider is only asked once the resolver has     *)
(* given the exports and the package info of name; when the resolver fails, *)
(* study raises the resolver's error, the provider is not asked and no      *)
(* response is written to the response cache.                               *)
C38_ResolverFailureStopsTheStudy ==
    [][(call'.op = "study" /\ call'.name # <<>>) =>
        \A errors \in {ResolverErrors} :
            IF errors # {}
            THEN /\ call'.error \in errors
                 /\ call'.provider = 0
                 /\ \A q \in DOMAIN disk'[aiResponseCache.cacheDir] :
                        disk'[aiResponseCache.cacheDir][q].value.kind = "AIResponseCacheEntry"
                            => q \in DOMAIN disk[aiResponseCache.cacheDir]
            ELSE TRUE]_vars

(* What the claim asks of a response: docs is a non-empty array, and every  *)
(* item has a non-empty name, an array of parameters, a string return type, *)
(* a boolean async flag and non-empty documentation.                        *)
WellFormed(response) ==
    /\ response.kind = "object"
    /\ response.docs.array
    /\ response.docs.items # <<>>
    /\ \A i \in 1..Len(response.docs.items) :
            \A doc \in {response.docs.items[i]} :
                /\ doc.methodData.object
                /\ TypeOf(doc.methodData.name) = "string" /\ doc.methodData.name # ""
                /\ doc.methodData.parameters = "[]"
                /\ TypeOf(doc.methodData.returnType) = "string"
                /\ TypeOf(doc.methodData.async) = "boolean"
                /\ TypeOf(doc.documentation) = "string" /\ doc.documentation # ""

(* The responses the response cache's store holds *)
StoredResponses(files) ==
    {files[q].value.response :
        q \in {p \in DOMAIN files : files[p].value.kind = "AIResponseCacheEntry"}}

(* C40: every response generateDocumentation has written to the response    *)
(* cache is well-formed, and a call whose request failed or whose answer is *)
(* not well-formed has written no response.                                 *)
C40_OnlyValidatedResponsesAreCached ==
    [][call'.op = "generateDocumentation" =>
        \A files \in {disk[aiResponseCache.cacheDir]}, after \in {disk'[aiResponseCache.cacheDir]} :
            /\ \A response \in StoredResponses(after) : WellFormed(response)
            /\ (call'.parsed = Throws \/ ~WellFormed(call'.parsed))
                    => /\ StoredResponses(after) \subseteq StoredResponses(files)
                       /\ DOMAIN after \subseteq DOMAIN files]_vars

(* generateDocumentation has raised API_ERROR for an answer whose second    *)
(* item has empty documentation: the provider was asked, and the store      *)
(* holds the response cached for the other library and nothing else.        *)
C40_Witness ==
    /\ aiResponseCache # NoInstance
    /\ call.op = "generateDocumentation" /\ call.name = <<108>>
    /\ call.parsed = Docs(<<GoodDoc, Doc(MethodData("g", "[]", "void", "true"), "")>>)
    /\ call.error = "API_ERROR" /\ call.provider = 1
    /\ StoredResponses(disk[aiResponseCache.cacheDir]) = {Docs(<<GoodDoc>>)}
    /\ Cardinality(DOMAIN disk[aiResponseCache.cacheDir]) = 1

(* C39: when study's two resolver calls, started without awaiting one      *)
(* another, have both returned, what they returned and what the directory    *)
(* of the store and the in-memory tier hold is what awaiting getPackageInfo  *)
(* and then context from the same state returns and leaves, whatever the    *)
(* order their awaits were resumed in.                                      *)
C39_UnawaitedCallsEndAsOneAfterTheOther ==
    Settled
    => Outcome(Resolving) \in
            {Outcome(s) : s \in OneAfterTheOther(fileCache, modules, call.name, call.at, call.start)}
====
